---------------------------- MODULE Spec2Model ----------------------------
(***************************************************************************)
(* Job lifecycle core of the Holmes AWX agent and the Holmes DNS agent:    *)
(* the JobManager store (in-memory map, one-file-per-job cache, retention  *)
(* purge), the workflow drivers of main.py and the LangGraph step          *)
(* sequencer of graph.py.                                                  *)
(*                                                                         *)
(* Optional[T] values are sequences of length <= 1: <<>> is None.          *)
(* Time is in seconds.                                                     *)
(***************************************************************************)
EXTENDS Integers, Sequences, FiniteSets, TLC

VARIABLES
    svc,         \* which service's store this is: "awx" or "dns"
    now,         \* datetime.utcnow(), in seconds
    jobs,        \* JobManager._jobs: job_id -> job object
    files,       \* the cache directory: job_id -> content of <job_id>.json
    last_purge,  \* JobManager._last_purge (Optional)
    used,        \* job ids uuid4 has already generated (in any process)
    last,        \* the last Store call: name, id, argument, returned object
    flushed,     \* job_id -> the object _persist_job last wrote in full
    drv,         \* job_id -> the background task of the job: function, position
    g,           \* the GraphState of the workflow run by orchestrate()
    audit,       \* job_id -> what the job's driver has done to the record
    awx,         \* the AWXAdapter: _token, _token_expires, tokens issued so far
    http,        \* the last call of AWXAdapter._request: what it sent and got
    tech,        \* the TechnitiumClient: the call of upsert_record in
                 \* progress, its depth, and the requests it has sent
    hist         \* history: the job ids the submit endpoints returned, in
                 \* order, per job the adapter calls its task has made, and
                 \* the status AWX reports for the job the task launched

vars == <<svc, now, jobs, files, last_purge, used, last, flushed, drv, g, audit,
          tech, awx, http, hist>>

----------------------------------------------------------------------------
(* Bounds of the model *)

MaxShortTicks == 1
MaxLongTicks == 1
MaxTokens == 3
MaxPolls == 2
MaxRecursion == 3

(* Settings and program constants *)

job_retention_minutes == 60
PURGE_INTERVAL_SECONDS == 60
TOKEN_MARGIN_SECONDS == 60
TOKEN_LIFETIME_SECONDS == 3600
job_poll_interval == 5
job_timeout == 3600

(* One job is followed. Every Store call reads and writes the entry and  *)
(* the file of its own id only; the purge tests each entry on its own.   *)
JobIds == {1}

(* The ids uuid4 can return: two jobs are followed where what one job    *)
(* does to another is in question                                        *)
LoopIds == {1, 2}

None == <<>>
Some(v) == <<v>>

----------------------------------------------------------------------------
(* models.py *)

Terminal(s) ==
    IF s = "awx" THEN {"completed", "failed", "canceled"}
                 ELSE {"completed", "failed"}

NonTerminal(s) ==
    IF s = "awx" THEN {"received", "validating", "launching", "monitoring"}
                 ELSE {"received", "validating", "applying", "documenting"}

Kinds(s) == IF s = "awx" THEN {"AWXJob", "OrchestrationJob"} ELSE {"RecordJob"}

JobTemplateRequest(id, name) ==
    [job_template_id |-> id, job_template_name |-> name, metadata |-> "meta"]

OrchestrationRequest(text) ==
    [request |-> text, metadata |-> "meta"]

RecordRequest(zone) ==
    [zone |-> zone, metadata |-> "meta"]

AWXJob(id, req) ==
    [kind |-> "AWXJob", job_id |-> id, status |-> "received",
     completed_at |-> None, request |-> req,
     message |-> None, awx_job_id |-> None, awx_error |-> None,
     child_job_ids |-> <<>>]

OrchestrationJob(id, req) ==
    [kind |-> "OrchestrationJob", job_id |-> id, status |-> "received",
     completed_at |-> None, request |-> req,
     message |-> None, decomposed_tasks |-> <<>>, awx_jobs |-> <<>>,
     llm_response |-> None, llm_error |-> None]

RecordJob(id, req) ==
    [kind |-> "RecordJob", job_id |-> id, status |-> "received",
     completed_at |-> None, request |-> req,
     message |-> None, doc_changes |-> None]

(* requested_at is left out: it is set at construction, nothing reads it, *)
(* and it is serialised and parsed like job_id.                           *)
(* A request text is the set of its words.                                *)
NewJobFor(kind, id, text) ==
    CASE kind = "AWXJob" ->
            AWXJob(id, JobTemplateRequest(None, Some("tmpl")))
      [] kind = "OrchestrationJob" ->
            OrchestrationJob(id, OrchestrationRequest(text))
      [] OTHER ->
            RecordJob(id, RecordRequest("zone"))

NewJob(kind, id) == NewJobFor(kind, id, {"deploy", "kubernetes"})

(* The field a keyword argument of update_status sets, per class *)
ResultField(job) ==
    CASE job.kind = "AWXJob" -> "awx_job_id"
      [] job.kind = "OrchestrationJob" -> "llm_response"
      [] OTHER -> "doc_changes"

----------------------------------------------------------------------------
(* Serialisation: job.json() writes the fields, never the class; parse_raw *)
(* reads the fields the target class declares, fills in the defaults of    *)
(* the missing ones and ignores the rest.                                  *)

Torn == [torn |-> TRUE]

ToJson(job) == [f \in (DOMAIN job) \ {"kind"} |-> job[f]]

Field(doc, f, default) == IF f \in DOMAIN doc THEN doc[f] ELSE default

IsJsonObject(doc) == "torn" \notin DOMAIN doc

ParseJobTemplateRequest(r) ==
    [job_template_id |-> Field(r, "job_template_id", None),
     job_template_name |-> Field(r, "job_template_name", None),
     metadata |-> Field(r, "metadata", "meta")]

ParseAWXJob(doc) ==
    IF ~IsJsonObject(doc) \/ "request" \notin DOMAIN doc
    THEN None
    ELSE Some([kind |-> "AWXJob",
               job_id |-> doc.job_id,
               status |-> Field(doc, "status", "received"),
               completed_at |-> Field(doc, "completed_at", None),
               request |-> ParseJobTemplateRequest(doc.request),
               message |-> Field(doc, "message", None),
               awx_job_id |-> Field(doc, "awx_job_id", None),
               awx_error |-> Field(doc, "awx_error", None),
               child_job_ids |-> Field(doc, "child_job_ids", <<>>)])

ParseOrchestrationJob(doc) ==
    IF ~IsJsonObject(doc) \/ "request" \notin DOMAIN doc
       \/ "request" \notin DOMAIN doc.request
    THEN None
    ELSE Some([kind |-> "OrchestrationJob",
               job_id |-> doc.job_id,
               status |-> Field(doc, "status", "received"),
               completed_at |-> Field(doc, "completed_at", None),
               request |-> [request |-> doc.request.request,
                            metadata |-> Field(doc.request, "metadata", "meta")],
               message |-> Field(doc, "message", None),
               decomposed_tasks |-> Field(doc, "decomposed_tasks", <<>>),
               awx_jobs |-> Field(doc, "awx_jobs", <<>>),
               llm_response |-> Field(doc, "llm_response", None),
               llm_error |-> Field(doc, "llm_error", None)])

ParseRecordJob(doc) ==
    IF ~IsJsonObject(doc) \/ "request" \notin DOMAIN doc
       \/ "zone" \notin DOMAIN doc.request
    THEN None
    ELSE Some([kind |-> "RecordJob",
               job_id |-> doc.job_id,
               status |-> Field(doc, "status", "received"),
               completed_at |-> Field(doc, "completed_at", None),
               request |-> [zone |-> doc.request.zone,
                            metadata |-> Field(doc.request, "metadata", "meta")],
               message |-> Field(doc, "message", None),
               doc_changes |-> Field(doc, "doc_changes", None)])

(* The try/except chain of get_job, _load_cached_jobs and purge_old_jobs *)
Deserialize(s, doc) ==
    IF s = "awx"
    THEN IF ParseAWXJob(doc) # None THEN ParseAWXJob(doc)
                                    ELSE ParseOrchestrationJob(doc)
    ELSE ParseRecordJob(doc)

----------------------------------------------------------------------------
(* job_manager.py *)

RetentionSeconds == job_retention_minutes * 60

Cutoff(t) == t - RetentionSeconds

(* Expired, without the test that completed_at is set *)
Expired_NoGuard(job, cutoff) ==
    job.completed_at = None \/ job.completed_at[1] < cutoff

(* job.completed_at and job.completed_at < cutoff *)
Expired(job, cutoff) ==
    job.completed_at # None /\ job.completed_at[1] < cutoff

Restrict(f, S) == [x \in S |-> f[x]]

Remove(f, x) == Restrict(f, (DOMAIN f) \ {x})

Put(f, x, v) == [y \in (DOMAIN f) \cup {x} |-> IF y = x THEN v ELSE f[y]]

(* purge_old_jobs, "Purge from memory" *)
PurgeMemory(js, cutoff) ==
    Restrict(js, {j \in DOMAIN js : ~Expired(js[j], cutoff)})

(* PurgeDisk, deleting only the files that cannot be read *)
PurgeDisk_KeepsOld(s, fs, cutoff) ==
    Restrict(fs, {j \in DOMAIN fs : Deserialize(s, fs[j]) # None})

(* purge_old_jobs, "Purge from disk cache" *)
PurgeDisk(s, fs, cutoff) ==
    Restrict(fs, {j \in DOMAIN fs :
                    /\ Deserialize(s, fs[j]) # None
                    /\ ~Expired(Deserialize(s, fs[j])[1], cutoff)})

(* _maybe_purge: does a pass run at time t ? *)
PurgeDue(lp, t) == ~(lp # None /\ t - lp[1] < PURGE_INTERVAL_SECONDS)

(* _maybe_purge on the store S = [jobs, files, last_purge] *)
MaybePurge(s, S, t) ==
    IF PurgeDue(S.last_purge, t)
    THEN [jobs |-> PurgeMemory(S.jobs, Cutoff(t)),
          files |-> PurgeDisk(s, S.files, Cutoff(t)),
          last_purge |-> Some(t)]
    ELSE S

Store == [jobs |-> jobs, files |-> files, last_purge |-> last_purge]

(* add_job, writing the new record to the cache as well *)
add_job_Persists(s, S, job, t) ==
    LET P == MaybePurge(s, [S EXCEPT !.jobs = Put(S.jobs, job.job_id, job)], t)
    IN  [P EXCEPT !.files = Put(P.files, job.job_id, ToJson(job))]

(* add_job: the store after the call *)
add_job(s, S, job, t) ==
    LET P == MaybePurge(s, [S EXCEPT !.jobs = Put(S.jobs, job.job_id, job)], t)
    IN  [P EXCEPT !.files = Remove(P.files, job.job_id)]

(* The fields update_status assigns before it looks at the status *)
Assign(job, status, message, kw) ==
    LET a == [job EXCEPT !.status = status]
        b == IF message # None THEN [a EXCEPT !.message = message] ELSE a
    IN  IF kw # None THEN [b EXCEPT ![ResultField(job)] = kw] ELSE b

(* IsTerminal, taking every status for a terminal one *)
IsTerminal_Always(s, status) == status = status

(* if status in (COMPLETED, FAILED, CANCELED) *)
IsTerminal(s, status) == status \in Terminal(s)

Stamp(s, job, status, t) ==
    IF IsTerminal(s, status) THEN [job EXCEPT !.completed_at = Some(t)] ELSE job

(* _persist_job: write_text either writes the document, fails before it  *)
(* opened the file, or fails after it truncated it                        *)
PersistOutcomes == {"written", "not_opened", "torn"}

(* _persist_job, writing the record without the completed_at that        *)
(* update_status has just set                                            *)
Persist_Unstamped(fs, job, outcome) ==
    CASE outcome = "written" ->
            Put(fs, job.job_id, ToJson([job EXCEPT !.completed_at = None]))
      [] outcome = "torn" -> Put(fs, job.job_id, Torn)
      [] OTHER -> fs

Persist(fs, job, outcome) ==
    CASE outcome = "written" -> Put(fs, job.job_id, ToJson(job))
      [] outcome = "torn" -> Put(fs, job.job_id, Torn)
      [] OTHER -> fs

(* update_status, reaching _maybe_purge also when the id is unknown *)
update_status_PurgesOnMiss(s, S, j, status, message, kw, outcome, t) ==
    IF j \notin DOMAIN S.jobs
    THEN [store |-> MaybePurge(s, S, t), ret |-> None, raised |-> FALSE]
    ELSE LET job == Stamp(s, Assign(S.jobs[j], status, message, kw), status, t)
             S1 == [S EXCEPT !.jobs = Put(S.jobs, j, job)]
         IN  IF IsTerminal(s, status) /\ outcome # "written"
             THEN [store |-> [S1 EXCEPT !.files = Persist(S.files, job, outcome)],
                   ret |-> None, raised |-> TRUE]
             ELSE [store |-> MaybePurge(s,
                               IF IsTerminal(s, status)
                               THEN [S1 EXCEPT !.files = Persist(S.files, job, outcome)]
                               ELSE S1, t),
                   ret |-> Some(job), raised |-> FALSE]

(* update_status: the store after the call, the object returned (None    *)
(* when the id is unknown or the call raised) and whether it raised      *)
update_status(s, S, j, status, message, kw, outcome, t) ==
    IF j \notin DOMAIN S.jobs
    THEN [store |-> S, ret |-> None, raised |-> FALSE]
    ELSE LET job == Stamp(s, Assign(S.jobs[j], status, message, kw), status, t)
             S1 == [S EXCEPT !.jobs = Put(S.jobs, j, job)]
         IN  IF IsTerminal(s, status) /\ outcome # "written"
             THEN [store |-> [S1 EXCEPT !.files = Persist(S.files, job, outcome)],
                   ret |-> None, raised |-> TRUE]
             ELSE [store |-> MaybePurge(s,
                               IF IsTerminal(s, status)
                               THEN [S1 EXCEPT !.files = Persist(S.files, job, outcome)]
                               ELSE S1, t),
                   ret |-> Some(job), raised |-> FALSE]

(* get_job, opening the cache file in a mode that creates it *)
get_job_TouchesFile(s, S, j, t) ==
    IF j \in DOMAIN S.jobs
    THEN [store |-> S, ret |-> Some(S.jobs[j]), how |-> "hit"]
    ELSE IF j \notin DOMAIN S.files
    THEN [store |-> [S EXCEPT !.files = Put(S.files, j, Torn)],
          ret |-> None, how |-> "miss"]
    ELSE IF Deserialize(s, S.files[j]) = None
    THEN [store |-> [S EXCEPT !.files = Remove(S.files, j)],
          ret |-> None, how |-> "corrupt"]
    ELSE [store |-> MaybePurge(s, [S EXCEPT !.jobs =
                       Put(S.jobs, j, Deserialize(s, S.files[j])[1])], t),
          ret |-> Deserialize(s, S.files[j]), how |-> "hydrated"]

(* get_job, leaving a file it cannot parse where it is *)
get_job_KeepsCorrupt(s, S, j, t) ==
    IF j \in DOMAIN S.jobs
    THEN [store |-> S, ret |-> Some(S.jobs[j]), how |-> "hit"]
    ELSE IF j \notin DOMAIN S.files
    THEN [store |-> S, ret |-> None, how |-> "miss"]
    ELSE IF Deserialize(s, S.files[j]) = None
    THEN [store |-> S, ret |-> None, how |-> "corrupt"]
    ELSE [store |-> MaybePurge(s, [S EXCEPT !.jobs =
                       Put(S.jobs, j, Deserialize(s, S.files[j])[1])], t),
          ret |-> Deserialize(s, S.files[j]), how |-> "hydrated"]

(* get_job: the store after the call, the object returned, and the path  *)
(* taken                                                                  *)
get_job(s, S, j, t) ==
    IF j \in DOMAIN S.jobs
    THEN [store |-> S, ret |-> Some(S.jobs[j]), how |-> "hit"]
    ELSE IF j \notin DOMAIN S.files
    THEN [store |-> S, ret |-> None, how |-> "miss"]
    ELSE IF Deserialize(s, S.files[j]) = None
    THEN [store |-> [S EXCEPT !.files = Remove(S.files, j)],
          ret |-> None, how |-> "corrupt"]
    ELSE LET job == Deserialize(s, S.files[j])[1]
         IN  [store |-> MaybePurge(s, [S EXCEPT !.jobs = Put(S.jobs, job.job_id, job)], t),
              ret |-> Some(job), how |-> "hydrated"]

(* _load_cached_jobs, without the test of the age *)
LoadCachedJobs_KeepsExpired(s, fs, cutoff) ==
    LET keep == {j \in DOMAIN fs : Deserialize(s, fs[j]) # None}
    IN  [jobs |-> [j \in keep |-> Deserialize(s, fs[j])[1]],
         files |-> Restrict(fs, keep),
         last_purge |-> None]

(* _load_cached_jobs: what a new JobManager holds after construction *)
LoadCachedJobs(s, fs, cutoff) ==
    LET keep == {j \in DOMAIN fs :
                    /\ Deserialize(s, fs[j]) # None
                    /\ ~Expired(Deserialize(s, fs[j])[1], cutoff)}
    IN  [jobs |-> [j \in keep |-> Deserialize(s, fs[j])[1]],
         files |-> Restrict(fs, keep),
         last_purge |-> None]

SetStore(S) ==
    /\ jobs' = S.jobs
    /\ files' = S.files
    /\ last_purge' = S.last_purge

Call(op, id, arg, ret) == [op |-> op, id |-> id, arg |-> arg, ret |-> ret]

----------------------------------------------------------------------------
(* The Store's calls, made by any caller *)

AddJob(j, kind) ==
    /\ j \notin used
    /\ kind \in Kinds(svc)
    /\ SetStore(add_job(svc, Store, NewJob(kind, j), now))
    /\ used' = used \cup {j}
    /\ last' = Call("add_job", j, "received", Some(NewJob(kind, j)))
    /\ UNCHANGED <<hist, tech, awx, http, svc, now, flushed, drv, g, audit>>

UpdateStatus(j, status, message, kw, outcome) ==
    /\ status \in Terminal(svc) \cup NonTerminal(svc)
    /\ status \notin Terminal(svc) => outcome = "written"
    /\ LET r == update_status(svc, Store, j, status, message, kw, outcome, now)
       IN  /\ SetStore(r.store)
           /\ last' = Call("update_status", j, status, r.ret)
           /\ flushed' = IF r.ret # None /\ status \in Terminal(svc)
                         THEN Put(flushed, j, r.ret[1]) ELSE flushed
    /\ UNCHANGED <<hist, tech, awx, http, svc, now, used, drv, g, audit>>

GetJob(j) ==
    /\ LET r == get_job(svc, Store, j, now)
       IN  /\ SetStore(r.store)
           /\ last' = Call("get_job", j, r.how, r.ret)
    /\ UNCHANGED <<hist, tech, awx, http, svc, now, used, flushed, drv, g, audit>>

(* purge_old_jobs, called directly *)
PurgeOldJobs ==
    /\ jobs' = PurgeMemory(jobs, Cutoff(now))
    /\ files' = PurgeDisk(svc, files, Cutoff(now))
    /\ last' = Call("purge_old_jobs", 0, "none", None)
    /\ UNCHANGED <<hist, tech, awx, http, svc, now, last_purge, used, flushed, drv, g, audit>>

(* __init__ of a new process over the same cache directory *)
Restart ==
    /\ SetStore(LoadCachedJobs(svc, files, Cutoff(now)))
    /\ last' = Call("init", 0, "none", None)
    /\ UNCHANGED <<hist, tech, awx, http, svc, now, used, flushed, drv, g, audit>>

(* Another worker process of the same service, over the same cache       *)
(* directory, finishes a job of its own: its update_status stamps and    *)
(* persists the job (the write may stop after truncating the file, and   *)
(* update_status then raises before the purge), and its own purge pass   *)
(* may run                                                               *)
PeerFlush(j, kind, status, kw, outcome, purge) ==
    /\ j \notin used
    /\ kind \in Kinds(svc)
    /\ status \in Terminal(svc)
    /\ outcome \in {"written", "torn"}
    /\ outcome = "torn" => ~purge /\ kw = None
    /\ LET job == Stamp(svc, Assign(NewJob(kind, j), status, Some("note"), kw),
                        status, now)
           fs == Persist(files, job, outcome)
       IN  /\ files' = IF purge THEN PurgeDisk(svc, fs, Cutoff(now)) ELSE fs
           /\ flushed' = IF outcome = "written" THEN Put(flushed, j, job) ELSE flushed
    /\ used' = used \cup {j}
    /\ last' = Call("peer", j, status, None)
    /\ UNCHANGED <<hist, tech, awx, http, svc, now, jobs, last_purge, drv, g, audit>>

(* The clock: it advances by one purge interval, or by a whole retention *)
(* window while the service sits idle                                     *)
Tick ==
    /\ \/ /\ (now % RetentionSeconds) \div PURGE_INTERVAL_SECONDS < MaxShortTicks
          /\ now' = now + PURGE_INTERVAL_SECONDS
       \/ /\ now \div RetentionSeconds < MaxLongTicks
          /\ now' = now + RetentionSeconds
    /\ UNCHANGED <<hist, tech, awx, http, svc, jobs, files, last_purge, used, last, flushed, drv, g, audit>>

----------------------------------------------------------------------------
(* graph.py: the GraphState and the nodes of the workflow.  Task indices *)
(* are 0-based as in the source; decomposed_tasks[i + 1] is task i.      *)
(* launches, attempts, failed_at and waited are history: the task        *)
(* indices launch_job_template was called for, the task indices          *)
(* launch_subtask tried to launch, the index of the first task that      *)
(* failed, and what the last wait_for_job came to after how many polls.  *)

Task(action) ==
    [action |-> action, status |-> None, awx_job_id |-> None,
     awx_status |-> None, completed |-> FALSE]

initial_state ==
    [decomposed_tasks |-> <<>>, current_task_index |-> 0, awx_job_ids |-> <<>>,
     completed_tasks |-> <<>>, error |-> None,
     backend |-> <<>>, launches |-> <<>>, attempts |-> <<>>,
     failed_at |-> None, waited |-> None]

analyze_request(G, request) ==
    LET tasks ==
          IF "deploy" \in request /\ "kubernetes" \in request
          THEN <<Task("provision-k8s-cluster"), Task("configure-k8s")>>
          ELSE IF "install" \in request
          THEN IF "nginx" \notin request /\ "docker" \in request
               THEN <<Task("install-docker")>>
               ELSE <<Task("install-nginx")>>
          ELSE <<Task("execute-request")>>
    IN  [G EXCEPT !.decomposed_tasks = tasks, !.current_task_index = 0,
                  !.awx_job_ids = <<>>, !.completed_tasks = <<>>]

(* The first failure of the run is remembered *)
Failed(G, i) ==
    IF G.failed_at = None THEN [G EXCEPT !.failed_at = Some(i)] ELSE G

(* AWX numbers the jobs it starts *)
NextAwxJobId(G) == Len(G.launches) + 1

(* launch_subtask: search is the outcome of the search by the task's     *)
(* template name, fallback that of the search for "test-hello-world",    *)
(* launch that of launch_job_template                                    *)
launch_subtask(G, search, fallback, launch) ==
    LET i == G.current_task_index
        found == search = "found" \/ (search = "missing" /\ fallback = "found")
        tried == [G EXCEPT !.attempts = Append(@, i)]
        called == IF found THEN [tried EXCEPT !.launches = Append(@, i)] ELSE tried
    IN  IF i >= Len(G.decomposed_tasks)
        THEN G
        ELSE IF found /\ launch = "id"
        THEN [called EXCEPT
                !.awx_job_ids = Append(@, NextAwxJobId(G)),
                !.decomposed_tasks[i + 1].awx_job_id = Some(NextAwxJobId(G)),
                !.decomposed_tasks[i + 1].status = Some("launched")]
        ELSE Failed([called EXCEPT
                       !.decomposed_tasks[i + 1].status = Some("failed"),
                       !.error = Some("Failed to launch task")], i)

(* awx_adapter.py, wait_for_job: the loop from its i-th poll on.  A poll *)
(* is the answer of get_job_status ("raise" when the request failed) and *)
(* the reading of time.time() - start_time that follows it.  The result  *)
(* is the status returned, "raise", "timeout" for the TimeoutError, or   *)
(* "pending" when the loop is still running after the last poll given    *)
RECURSIVE WaitLoop(_, _)
WaitLoop(polls, i) ==
    IF i > Len(polls)
    THEN [outcome |-> "pending", polls |-> Len(polls)]
    ELSE IF polls[i].status = "raise"
    THEN [outcome |-> "raise", polls |-> i]
    ELSE IF polls[i].status \in {"successful", "failed", "error", "canceled"}
    THEN [outcome |-> polls[i].status, polls |-> i]
    ELSE IF polls[i].elapsed > job_timeout
    THEN [outcome |-> "timeout", polls |-> i]
    ELSE WaitLoop(polls, i + 1)

(* wait_for_job, reading the clock before it looks at the status *)
wait_for_job_TimeFirst(polls) ==
    LET E == {i \in DOMAIN polls :
                \/ polls[i].status \in {"successful", "failed", "error", "canceled", "raise"}
                \/ polls[i].elapsed > job_timeout}
        k == CHOOSE i \in E : \A m \in E : i <= m
    IN  IF E = {} THEN [outcome |-> "pending", polls |-> Len(polls)]
        ELSE IF polls[k].status = "raise" THEN [outcome |-> "raise", polls |-> k]
        ELSE IF polls[k].elapsed > job_timeout THEN [outcome |-> "timeout", polls |-> k]
        ELSE [outcome |-> polls[k].status, polls |-> k]

wait_for_job(polls) == WaitLoop(polls, 1)

(* wait_for_completion: w is what wait_for_job came to *)
wait_for_completion(G, w) ==
    LET i == G.current_task_index
        id == G.awx_job_ids[Len(G.awx_job_ids)]
    IN  IF G.awx_job_ids = <<>>
        THEN G
        ELSE IF w.outcome \in {"raise", "timeout"}
        THEN Failed([G EXCEPT !.error = Some("Error waiting for job"),
                              !.waited = Some(w)], i)
        ELSE LET W == [G EXCEPT !.decomposed_tasks[i + 1].awx_status = Some(w.outcome),
                                !.decomposed_tasks[i + 1].completed = TRUE,
                                !.backend = Put(@, id, w.outcome),
                                !.waited = Some(w)]
             IN  IF w.outcome = "successful"
                 THEN [W EXCEPT !.current_task_index = i + 1]
                 ELSE Failed([W EXCEPT !.error = Some("Job failed with status")], i)

(* handle_callback returns the state as it is *)
handle_callback(G) == G

(* check_next_task, without the test of the error *)
check_next_task_IgnoresError(G) ==
    IF G.current_task_index < Len(G.decomposed_tasks)
    THEN "launch_subtask"
    ELSE "finalize"

check_next_task(G) ==
    IF G.error # None
    THEN "finalize"
    ELSE IF G.current_task_index < Len(G.decomposed_tasks)
    THEN "launch_subtask"
    ELSE "finalize"

finalize(G) ==
    LET tasks == [i \in DOMAIN G.decomposed_tasks |->
                    IF G.decomposed_tasks[i].status # Some("failed")
                    THEN [G.decomposed_tasks[i] EXCEPT !.status = Some("completed")]
                    ELSE G.decomposed_tasks[i]]
    IN  [G EXCEPT !.decomposed_tasks = tasks,
                  !.completed_tasks = G.completed_tasks \o tasks]

(* _orchestrate_with_graph, reporting no AWX job *)
GraphResult_NoJobs(G) ==
    [response |-> IF G.error # None THEN "Error" ELSE "Completed",
     steps |-> G.decomposed_tasks,
     awx_jobs |-> <<>>,
     completed_tasks |-> G.completed_tasks,
     error |-> G.error]

(* llm_orchestrator.py: what _orchestrate_with_graph returns *)
GraphResult(G) ==
    [response |-> IF G.error # None THEN "Error" ELSE "Completed",
     steps |-> G.decomposed_tasks,
     awx_jobs |-> G.awx_job_ids,
     completed_tasks |-> G.completed_tasks,
     error |-> G.error]

----------------------------------------------------------------------------

----------------------------------------------------------------------------
(* main.py of both services: the endpoints that queue a job and the      *)
(* background tasks that drive it.  A task runs from one adapter call to *)
(* the next in one step; the adapter call's outcome is the step's input. *)

TaskOf(kind) ==
    CASE kind = "AWXJob" -> "process_awx_job"
      [] kind = "OrchestrationJob" -> "process_orchestration_job"
      [] OTHER -> "process_record_job"

Requests ==
    {{"deploy", "kubernetes"}, {"install", "nginx"}, {"install", "docker"},
     {"restart", "nginx"}}

AdapterOutcomes == {"ok", "fail", "raise"}

(* The identifiers a job-template submission may carry *)
TemplateIds == {None, Some(0), Some(5)}

TemplateNames == {None, Some("tmpl")}

(* "not x" for an Optional[int] and for an Optional[str] *)
Falsy(x) == x = None \/ x[1] = 0

FalsyStr(x) == x = None \/ x[1] = ""

(* The ids uuid4 may return next, were the default of job_id evaluated   *)
(* once, when the class is defined                                       *)
uuid4_Once(u) == {1}

(* The ids uuid4 may return next: any id it has not returned before      *)
uuid4(u) == LoopIds \ u

(* uuid4() for a child record: an id no job has *)
NewUuid(n) == Cardinality(LoopIds) + n

NoHist == [ids |-> <<>>, calls |-> [j \in LoopIds |-> <<>>],
           backend |-> [j \in LoopIds |-> None]]

(* AWXJobStatus: the statuses with which a job of AWX has ended *)
AwxTerminal == {"successful", "failed", "error", "canceled"}

(* The task of job j has made the adapter calls cs *)
Calls(j, cs) == hist' = [hist EXCEPT !.calls[j] = @ \o cs]

(* The positions at which a task is not on the event loop: not scheduled, *)
(* scheduled and not started, returned, or left by an exception          *)
OffLoop == {"none", "queued", "done", "crashed"}

(* The event loop runs one coroutine at a time, and a task that has      *)
(* started gives the loop back only when it ends: the only await of the  *)
(* three tasks (main.py:209) lies behind the NameError of line 198, and  *)
(* the adapters' requests and time.sleep block the thread.               *)
Idle == \A k \in DOMAIN drv : drv[k].pc \in OffLoop

OnLoop(j) == \A k \in (DOMAIN drv) \ {j} : drv[k].pc \in OffLoop

Queued(task) == [task |-> task, pc |-> "queued", exc |-> None]

At(j, task, pc) == drv[j].task = task /\ drv[j].pc = pc

Goto(j, pc) == drv' = [drv EXCEPT ![j].pc = pc]

(* raise e inside the try of a task *)
Throw(j, e) == drv' = [drv EXCEPT ![j].pc = "except", ![j].exc = Some(e)]

(* job.<field> = v on the object the task got from get_job *)
SetField(S, j, field, v) ==
    IF j \in DOMAIN S.jobs
    THEN [S EXCEPT !.jobs = Put(S.jobs, j, [S.jobs[j] EXCEPT ![field] = v])]
    ELSE S

(* What one update_status call of a task adds to the record's history *)
Audited(a, S, j, status, outcome) ==
    IF j \notin DOMAIN S.jobs
    THEN a
    ELSE IF status \in Terminal(svc)
    THEN [a EXCEPT !.entries = @ + 1,
                   !.stamps = @ + 1,
                   !.flushes = @ + 1,
                   !.writes = @ + (IF outcome = "not_opened" THEN 0 ELSE 1),
                   !.phases = Append(@, status)]
    ELSE [a EXCEPT !.phases = Append(@, status)]

(* job_manager.update_status(job_id, status, message, ...) in a task, on *)
(* the store S and the history a; next is where the task goes on,        *)
(* handler where the exception of the cache write takes it               *)
DriveFrom(j, a, S, status, message, kw, outcome, next, handler) ==
    LET r == update_status(svc, S, j, status, Some(message), kw, outcome, now)
    IN  /\ SetStore(r.store)
        /\ last' = Call("update_status", j, status, r.ret)
        /\ flushed' = IF r.ret # None /\ status \in Terminal(svc)
                      THEN Put(flushed, j, r.ret[1]) ELSE flushed
        /\ audit' = [audit EXCEPT ![j] = Audited(a, S, j, status, outcome)]
        /\ IF ~r.raised THEN Goto(j, next)
           ELSE IF handler = "except" THEN Throw(j, "OSError")
           ELSE Goto(j, handler)

Drive(j, S, status, message, kw, outcome, next, handler) ==
    DriveFrom(j, audit[j], S, status, message, kw, outcome, next, handler)

(* The task leaves the record alone and goes to pc *)
Jump(j, S, pc) ==
    /\ SetStore(S)
    /\ Goto(j, pc)
    /\ UNCHANGED <<last, flushed, audit>>

(* The task raises e before its next update_status *)
Raise(j, S, e) ==
    /\ SetStore(S)
    /\ Throw(j, e)
    /\ UNCHANGED <<last, flushed, audit>>

(* submit_orchestration, submit_record_job, and submit_job with the name *)
(* of a template                                                         *)
Submit(j, kind, text) ==
    /\ Idle
    /\ j \in uuid4(used)
    /\ kind \in Kinds(svc)
    /\ SetStore(add_job(svc, Store, NewJobFor(kind, j, text), now))
    /\ used' = used \cup {j}
    /\ last' = Call("add_job", j, "received", Some(NewJobFor(kind, j, text)))
    /\ drv' = [drv EXCEPT ![j] = Queued(TaskOf(kind))]
    /\ hist' = [hist EXCEPT !.ids = Append(@, j)]
    /\ UNCHANGED <<tech, awx, http, svc, now, flushed, g, audit>>

(* submit_job, accepting every request *)
Rejects_Nothing(id, name) == FALSE

(* submit_job: if not request.job_template_id and                        *)
(* not request.job_template_name                                          *)
Rejects(id, name) == Falsy(id) /\ FalsyStr(name)

(* submit_job: HTTP 400 when the request names no template, else the job *)
(* is stored and its task scheduled                                      *)
SubmitJob(j, id, name) ==
    /\ svc = "awx"
    /\ Idle
    /\ id \in TemplateIds /\ name \in TemplateNames
    /\ IF Rejects(id, name)
       THEN /\ last' = Call("submit_job", 0, "rejected", None)
            /\ UNCHANGED <<jobs, files, last_purge, used, drv, hist>>
       ELSE /\ j \in uuid4(used)
            /\ SetStore(add_job(svc, Store, AWXJob(j, JobTemplateRequest(id, name)), now))
            /\ used' = used \cup {j}
            /\ last' = Call("add_job", j, "received",
                            Some(AWXJob(j, JobTemplateRequest(id, name))))
            /\ drv' = [drv EXCEPT ![j] = Queued("process_awx_job")]
            /\ hist' = [hist EXCEPT !.ids = Append(@, j)]
    /\ UNCHANGED <<tech, awx, http, svc, now, flushed, g, audit>>

(* The first lines of the three tasks: get_job, the type test, and the   *)
(* update to VALIDATING                                                  *)
Start(j) ==
    /\ drv[j].pc = "queued"
    /\ OnLoop(j)
    /\ LET r == get_job(svc, Store, j, now)
           first == CASE drv[j].task = "process_awx_job" -> "resolve"
                      [] drv[j].task = "process_orchestration_job" -> "orchestrate"
                      [] OTHER -> "ensure_zone"
       IN  IF \/ r.ret = None
              \/ svc = "awx" /\ TaskOf(r.ret[1].kind) # drv[j].task
           THEN Jump(j, r.store, "done")
           ELSE Drive(j, r.store, "validating", "Validating.", None, "written",
                      first, "except")
    /\ UNCHANGED <<hist, tech, awx, http, svc, now, used, g>>

(* str(e) of the ValueError of main.py:174 and of main.py:181 *)
TemplateNotFound(name) ==
    IF name = Some("tmpl") THEN "Job template 'tmpl' not found"
                           ELSE "Job template 'None' not found"

TemplateIdNotFound(id) ==
    IF id = Some(5) THEN "Job template ID 5 not found"
                    ELSE "Job template ID 1 not found"

(* process_awx_job, "Validate job template": the search by name when    *)
(* the request has no id, then get_job_template, then LAUNCHING          *)
Resolve(j, search, verify) ==
    /\ At(j, "process_awx_job", "resolve")
    /\ OnLoop(j)
    /\ search \in AdapterOutcomes /\ verify \in AdapterOutcomes
    /\ LET template_id == IF j \in DOMAIN jobs
                          THEN jobs[j].request.job_template_id ELSE None
           name == IF j \in DOMAIN jobs
                   THEN jobs[j].request.job_template_name ELSE None
           searched == Falsy(template_id)
           id == IF searched THEN Some(1) ELSE template_id
           S1 == IF searched /\ search = "ok" /\ j \in DOMAIN jobs
                 THEN SetField(Store, j, "request",
                               [jobs[j].request EXCEPT !.job_template_id = Some(1)])
                 ELSE Store
       IN  /\ ~searched => search = "ok"
           /\ (searched /\ search # "ok") => verify = "ok"
           /\ Calls(j, (IF searched THEN <<"search_job_template">> ELSE <<>>)
                       \o (IF search = "ok" THEN <<"get_job_template">> ELSE <<>>))
           /\ CASE searched /\ search = "fail" ->
                      Raise(j, S1, TemplateNotFound(name))
                [] searched /\ search = "raise" ->
                      Raise(j, S1, "HTTPError")
                [] search = "ok" /\ verify = "fail" ->
                      Raise(j, S1, TemplateIdNotFound(id))
                [] search = "ok" /\ verify = "raise" ->
                      Raise(j, S1, "HTTPError")
                [] OTHER ->
                      Drive(j, S1, "launching", "Launching job template.", None,
                            "written", "launch", "except")
    /\ UNCHANGED <<tech, awx, http, svc, now, used, g>>

(* process_awx_job, "Launch job": launch_job_template, then the line     *)
(* that builds AWXJobStatus(...), a name main.py does not import: it     *)
(* raises NameError and the task goes to its except clause.  final is    *)
(* the status with which the job AWX has started ends on the backend.    *)
Launch(j, launch, final) ==
    /\ At(j, "process_awx_job", "launch")
    /\ OnLoop(j)
    /\ launch \in AdapterOutcomes
    /\ final \in AwxTerminal
    /\ hist' = [hist EXCEPT
                   !.calls[j] = Append(@, "launch_job_template"),
                   !.backend[j] = IF launch = "ok" THEN Some(final) ELSE @]
    /\ CASE launch = "ok" ->
               Raise(j, SetField(Store, j, "awx_job_id", Some(1)),
                     "name 'AWXJobStatus' is not defined")
         [] launch = "fail" ->
               Raise(j, Store, "AWX did not return a job ID")
         [] OTHER ->
               Raise(j, Store, "HTTPError")
    /\ UNCHANGED <<tech, awx, http, svc, now, used, g>>

(* process_record_job: ensure_zone, then APPLYING *)
EnsureZone(j, outcome) ==
    /\ At(j, "process_record_job", "ensure_zone")
    /\ OnLoop(j)
    /\ outcome \in AdapterOutcomes
    /\ Calls(j, <<"ensure_zone">>)
    /\ CASE outcome = "fail" -> Raise(j, Store, "Zone validation failed")
         [] outcome = "raise" -> Raise(j, Store, "HTTPError")
         [] OTHER -> Drive(j, Store, "applying", "Applying record.", None,
                           "written", "upsert_record", "except")
    /\ UNCHANGED <<tech, awx, http, svc, now, used, g>>

(* process_record_job: upsert_record, then DOCUMENTING *)
UpsertRecord(j, outcome) ==
    /\ At(j, "process_record_job", "upsert_record")
    /\ OnLoop(j)
    /\ outcome \in AdapterOutcomes
    /\ Calls(j, <<"upsert_record">>)
    /\ CASE outcome = "fail" -> Raise(j, Store, "update failed")
         [] outcome = "raise" -> Raise(j, Store, "HTTPError")
         [] OTHER -> Drive(j, Store, "documenting", "Updating documentation.",
                           None, "written", "document", "except")
    /\ UNCHANGED <<tech, awx, http, svc, now, used, g>>

(* process_record_job: the IPAM note (append_ipam_notes never raises),   *)
(* then COMPLETED with doc_changes=notes                                 *)
Document(j, outcome) ==
    /\ At(j, "process_record_job", "document")
    /\ OnLoop(j)
    /\ outcome \in PersistOutcomes
    /\ Calls(j, <<"append_ipam_notes">>)
    /\ Drive(j, Store, "completed", "Change applied successfully.",
             Some(<<"ipam-note">>), outcome, "done", "except")
    /\ UNCHANGED <<tech, awx, http, svc, now, used, g>>

(* The message of the except clause, one text for every exception *)
FailureMessage_Generic(task, e) == "Job processing failed."

(* The message of the except clause: f"Job processing failed: {e}",      *)
(* f"Orchestration failed: {e}", str(exc)                                *)
FailureMessage(task, e) ==
    CASE task = "process_record_job" -> e
      [] task = "process_orchestration_job" ->
            IF e = "OSError" THEN "Orchestration failed: OSError"
                             ELSE "Orchestration failed: RuntimeError"
      [] OTHER ->
            CASE e = "Job template 'tmpl' not found" ->
                    "Job processing failed: Job template 'tmpl' not found"
              [] e = "Job template 'None' not found" ->
                    "Job processing failed: Job template 'None' not found"
              [] e = "Job template ID 5 not found" ->
                    "Job processing failed: Job template ID 5 not found"
              [] e = "Job template ID 1 not found" ->
                    "Job processing failed: Job template ID 1 not found"
              [] e = "AWX did not return a job ID" ->
                    "Job processing failed: AWX did not return a job ID"
              [] e = "name 'AWXJobStatus' is not defined" ->
                    "Job processing failed: name 'AWXJobStatus' is not defined"
              [] OTHER ->
                    "Job processing failed: HTTPError"

(* The except clause of the three tasks: FAILED.  An exception of this   *)
(* update_status leaves the task                                         *)
Except(j, outcome) ==
    /\ drv[j].pc = "except"
    /\ OnLoop(j)
    /\ outcome \in PersistOutcomes
    /\ LET e == drv[j].exc[1]
           S1 == CASE drv[j].task = "process_awx_job" ->
                        SetField(Store, j, "awx_error", Some(e))
                   [] drv[j].task = "process_orchestration_job" ->
                        SetField(Store, j, "llm_error", Some(e))
                   [] OTHER -> Store
       IN  Drive(j, S1, "failed", FailureMessage(drv[j].task, e), None, outcome,
                 "done", "crashed")
    /\ UNCHANGED <<hist, tech, awx, http, svc, now, used, g>>

(* process_orchestration_job: get_orchestrator() may raise; orchestrate  *)
(* catches what workflow.invoke raises and returns an error result;      *)
(* otherwise the graph starts at analyze_request                         *)
Orchestrate(j, outcome) ==
    /\ At(j, "process_orchestration_job", "orchestrate")
    /\ OnLoop(j)
    /\ outcome \in AdapterOutcomes
    /\ j \in DOMAIN jobs
    /\ g' = CASE outcome = "ok" ->
                    analyze_request(initial_state, jobs[j].request.request)
              [] outcome = "fail" ->
                    [initial_state EXCEPT !.error = Some("Error during orchestration")]
              [] OTHER -> g
    /\ CASE outcome = "ok" -> Goto(j, "launch_subtask")
         [] outcome = "fail" -> Goto(j, "collect")
         [] OTHER -> Throw(j, "RuntimeError")
    /\ UNCHANGED <<hist, tech, awx, http, svc, now, used, last, flushed, audit, jobs, files, last_purge>>

(* A node of the graph, and the adapter calls it made *)
Node(j, node, G, next, calls) ==
    /\ At(j, "process_orchestration_job", node)
    /\ OnLoop(j)
    /\ g' = G
    /\ Goto(j, next)
    /\ Calls(j, calls)
    /\ UNCHANGED <<tech, awx, http, svc, now, used, last, flushed, audit, jobs, files, last_purge>>

LaunchSubtask(j, search, fallback, launch) ==
    /\ search \in {"found", "missing", "raise"}
    /\ fallback \in {"found", "missing", "raise"}
    /\ launch \in {"id", "none", "raise"}
    /\ search # "missing" => fallback = "found"
    /\ ~(search = "found" \/ (search = "missing" /\ fallback = "found"))
          => launch = "id"
    /\ Node(j, "launch_subtask", launch_subtask(g, search, fallback, launch),
            "wait_for_completion",
            IF g.current_task_index >= Len(g.decomposed_tasks) THEN <<>>
            ELSE <<"search_job_template">>
                 \o (IF search = "missing" THEN <<"search_job_template">> ELSE <<>>)
                 \o (IF search = "found" \/ (search = "missing" /\ fallback = "found")
                     THEN <<"launch_job_template">> ELSE <<>>))

(* What wait_for_job may come to for the job the graph waits for: a job  *)
(* AWX has reported as ended keeps the status it ended with              *)
WaitOutcomes(G) ==
    IF G.awx_job_ids = <<>>
    THEN {"pending"}
    ELSE IF G.awx_job_ids[Len(G.awx_job_ids)] \in DOMAIN G.backend
    THEN {G.backend[G.awx_job_ids[Len(G.awx_job_ids)]], "raise"}
    ELSE {"successful", "failed", "canceled", "raise", "timeout"}

(* The answers of n polls: n - 1 times a job that is still running, each *)
(* poll_interval after the one before, then status; late: the last       *)
(* answer comes when the timeout has passed                              *)
PollsOf(n, status, late) ==
    [i \in 1..n |->
        [status |-> IF i < n THEN "running" ELSE status,
         elapsed |-> IF i = n /\ late
                     THEN job_timeout + job_poll_interval
                     ELSE (i - 1) * job_poll_interval]]

PollStatuses == {"running", "successful", "failed", "canceled", "raise"}

WaitForCompletion(j, polls) ==
    /\ g.awx_job_ids = <<>> => polls = <<>>
    /\ wait_for_job(polls).outcome \in WaitOutcomes(g)
    /\ wait_for_job(polls).polls = Len(polls)
    /\ Node(j, "wait_for_completion",
            wait_for_completion(g, wait_for_job(polls)),
            "handle_callback",
            IF g.awx_job_ids = <<>> THEN <<>> ELSE <<"wait_for_job">>)

HandleCallback(j) ==
    /\ j \in LoopIds
    /\ Node(j, "handle_callback", handle_callback(g), check_next_task(g), <<>>)

Finalize(j) ==
    /\ j \in LoopIds
    /\ Node(j, "finalize", finalize(g), "collect", <<>>)

(* The tracking record process_orchestration_job appends for a launched  *)
(* AWX job                                                               *)
Child(awx_job_id) ==
    [AWXJob(NewUuid(awx_job_id), JobTemplateRequest(None, Some("Orchestrated")))
        EXCEPT !.awx_job_id = Some(awx_job_id)]

(* process_orchestration_job after orchestrate() has returned *)
Collect(j, outcome) ==
    /\ At(j, "process_orchestration_job", "collect")
    /\ OnLoop(j)
    /\ outcome \in PersistOutcomes
    /\ LET result == GraphResult(g)
           S1 == SetField(SetField(Store, j, "llm_response", Some(result.response)),
                          j, "decomposed_tasks", result.steps)
           S2 == update_status(svc, S1, j, "monitoring",
                               Some("Orchestration completed. Launched AWX job(s)."),
                               None, "written", now).store
           S3 == IF j \in DOMAIN S2.jobs
                 THEN SetField(S2, j, "awx_jobs",
                               S2.jobs[j].awx_jobs \o
                                 [i \in DOMAIN result.awx_jobs |->
                                    Child(result.awx_jobs[i])])
                 ELSE S2
       IN  IF result.awx_jobs # <<>>
           THEN DriveFrom(j, Audited(audit[j], S1, j, "monitoring", "written"),
                          S3, "completed", "Orchestration completed successfully.",
                          None, outcome, "done", "except")
           ELSE Drive(j, S1, "completed",
                      "Orchestration completed (no AWX jobs launched).",
                      None, outcome, "done", "except")
    /\ UNCHANGED <<hist, tech, awx, http, svc, now, used, g>>

----------------------------------------------------------------------------
(* awx_adapter.py: the token cache and _request.  Tokens are numbered in *)
(* the order the token endpoint issues them.                             *)

AWXAdapter == [token |-> None, token_expires |-> None, issued |-> 0]

(* _get_token, with a margin of the wrong sign *)
NeedsRefresh_LateMargin(A, t) ==
    \/ A.token = None
    \/ /\ A.token_expires # None /\ A.token_expires[1] # 0
       /\ t >= A.token_expires[1] + TOKEN_MARGIN_SECONDS

(* _get_token: self._token is None or (self._token_expires and           *)
(* now >= self._token_expires - 60)                                      *)
NeedsRefresh(A, t) ==
    \/ A.token = None
    \/ /\ A.token_expires # None /\ A.token_expires[1] # 0
       /\ t >= A.token_expires[1] - TOKEN_MARGIN_SECONDS

(* _get_token at time t; endpoint is what POST /api/v2/tokens/ does.     *)
(* token is None when raise_for_status raised                            *)
GetToken(A, t, endpoint) ==
    IF ~NeedsRefresh(A, t)
    THEN [adapter |-> A, token |-> A.token, contacted |-> FALSE]
    ELSE IF endpoint = "ok"
    THEN [adapter |-> [token |-> Some(A.issued + 1),
                       token_expires |-> Some(t + TOKEN_LIFETIME_SECONDS),
                       issued |-> A.issued + 1],
          token |-> Some(A.issued + 1), contacted |-> TRUE]
    ELSE [adapter |-> A, token |-> None, contacted |-> TRUE]

(* response.raise_for_status(), raising for 5xx only *)
RaisesForStatus_ServerOnly(status) == status >= 500

(* response.raise_for_status() raises *)
RaisesForStatus(status) == status >= 400

(* _request, keeping the cached token after a 401 *)
Invalidate_Keeps(A) == A

(* _request: self._token = None; self._token_expires = None *)
Invalidate(A) == [A EXCEPT !.token = None, !.token_expires = None]

(* One client.request(method, url, headers) and what it carried *)
Attempt(r, tok, A, t) ==
    [request |-> r, token |-> tok, expires |-> A.token_expires, at |-> t]

Response(status, n) == [status |-> status, attempt |-> n]

NoCall ==
    [before |-> AWXAdapter, at |-> 0, sent |-> <<>>, contacts |-> <<>>,
     responses |-> <<>>, raised |-> FALSE, ret |-> None]

(* _request(method, path) at time t: e1, e2 are what the token endpoint  *)
(* does when asked, s1, s2 the status of the answers to the request.     *)
(* The adapter after the call, and the record of the call                *)
SendRequest(A, t, r, e1, s1, e2, s2) ==
    LET g1 == GetToken(A, t, e1)
        a1 == Attempt(r, g1.token, g1.adapter, t)
        g2 == GetToken(Invalidate(g1.adapter), t, e2)
        a2 == Attempt(r, g2.token, g2.adapter, t)
        call == [NoCall EXCEPT !.before = A, !.at = t]
    IN  IF g1.token = None
        THEN [adapter |-> g1.adapter,
              call |-> [call EXCEPT !.contacts = <<g1.contacted>>, !.raised = TRUE]]
        ELSE IF s1 # 401
        THEN [adapter |-> g1.adapter,
              call |-> [call EXCEPT
                          !.contacts = <<g1.contacted>>,
                          !.sent = <<a1>>, !.responses = <<s1>>,
                          !.raised = RaisesForStatus(s1),
                          !.ret = IF RaisesForStatus(s1) THEN None
                                  ELSE Some(Response(s1, 1))]]
        ELSE IF g2.token = None
        THEN [adapter |-> g2.adapter,
              call |-> [call EXCEPT
                          !.contacts = <<g1.contacted, g2.contacted>>,
                          !.sent = <<a1>>, !.responses = <<s1>>,
                          !.raised = TRUE]]
        ELSE [adapter |-> g2.adapter,
              call |-> [call EXCEPT
                          !.contacts = <<g1.contacted, g2.contacted>>,
                          !.sent = <<a1, a2>>, !.responses = <<s1, s2>>,
                          !.raised = RaisesForStatus(s2),
                          !.ret = IF RaisesForStatus(s2) THEN None
                                  ELSE Some(Response(s2, 2))]]

Statuses == {200, 401, 500}

ApiRequests == {"GET job_templates", "POST launch"}

(* A caller (an adapter method) makes one _request.  Inputs the call     *)
(* does not read are fixed                                               *)
Request(r, e1, s1, e2, s2) ==
    /\ awx.issued < MaxTokens
    /\ r \in ApiRequests
    /\ e1 \in {"ok", "fail"} /\ e2 \in {"ok", "fail"}
    /\ s1 \in Statuses /\ s2 \in Statuses
    /\ ~NeedsRefresh(awx, now) => e1 = "ok"
    /\ (NeedsRefresh(awx, now) /\ e1 = "fail") => s1 = 200
    /\ ((NeedsRefresh(awx, now) /\ e1 = "fail") \/ s1 # 401) => e2 = "ok"
    /\ ((NeedsRefresh(awx, now) /\ e1 = "fail") \/ s1 # 401 \/ e2 = "fail")
          => s2 = 200
    /\ LET res == SendRequest(awx, now, r, e1, s1, e2, s2)
       IN  awx' = res.adapter /\ http' = res.call
    /\ UNCHANGED <<tech, hist, svc, now, jobs, files, last_purge, used, last, flushed,
                   drv, g, audit>>

(* time.time() moves on to d seconds before the recorded expiry of the   *)
(* cached token                                                          *)
Elapse(d) ==
    /\ awx.token_expires # None
    /\ awx.token_expires[1] - d > now
    /\ now' = awx.token_expires[1] - d
    /\ UNCHANGED <<hist, tech, awx, http, svc, jobs, files, last_purge, used, last, flushed,
                   drv, g, audit>>

----------------------------------------------------------------------------
(* technitium_adapter.py: upsert_record is add_record; add_record calls  *)
(* update_record when the server answers 409; update_record calls        *)
(* delete_record and then add_record again, whatever the delete came to. *)
(* Every method returns what the call it ends with returns, so the       *)
(* result of the innermost add_record is the result of upsert_record.    *)
(* depth is the number of add_record calls on the stack; a call deeper   *)
(* than the interpreter allows raises RecursionError, which the except   *)
(* clause of the method it is raised in turns into (False, str(e)).      *)

NoTech == [pc |-> "idle", depth |-> 0, log |-> <<>>, ret |-> None]

TechStatuses == {200, 409, 500}

(* A request the client has sent: e is "fail" when session.request raised *)
Sent(op, e, s) == [op |-> op, e |-> e, status |-> s]

Returned(T, ok) == [T EXCEPT !.pc = "returned", !.ret = Some(ok)]

(* add_record: the request to /api/zones/records/add and what follows *)
add_record(T, e, s) ==
    IF T.depth > MaxRecursion
    THEN Returned(T, FALSE)
    ELSE LET T1 == [T EXCEPT !.log = Append(@, Sent("add", e, s))]
         IN  IF e = "fail" THEN Returned(T1, FALSE)
             ELSE IF s = 200 THEN Returned(T1, TRUE)
             ELSE IF s = 409 THEN [T1 EXCEPT !.pc = "delete_record"]
             ELSE Returned(T1, FALSE)

(* update_record: delete_record's request and result, which is only      *)
(* logged, then add_record once more                                     *)
update_record(T, e, s) ==
    [T EXCEPT !.log = Append(@, Sent("delete", e, s)),
              !.pc = "add_record",
              !.depth = @ + 1]

(* TechnitiumAdapter.upsert_record is called *)
UpsertRecordCall ==
    /\ svc = "dns"
    /\ tech.pc = "idle"
    /\ tech' = [tech EXCEPT !.pc = "add_record", !.depth = 1]
    /\ UNCHANGED <<hist, awx, http, svc, now, jobs, files, last_purge, used, last,
                   flushed, drv, g, audit>>

AddRecord(e, s) ==
    /\ tech.pc = "add_record"
    /\ e \in {"ok", "fail"} /\ s \in TechStatuses
    /\ e = "fail" => s = 200
    /\ tech' = add_record(tech, e, s)
    /\ UNCHANGED <<hist, awx, http, svc, now, jobs, files, last_purge, used, last,
                   flushed, drv, g, audit>>

DeleteRecord(e, s) ==
    /\ tech.pc = "delete_record"
    /\ e \in {"ok", "fail"} /\ s \in TechStatuses
    /\ e = "fail" => s = 200
    /\ tech' = update_record(tech, e, s)
    /\ UNCHANGED <<hist, awx, http, svc, now, jobs, files, last_purge, used, last,
                   flushed, drv, g, audit>>

NoAudit == [entries |-> 0, stamps |-> 0, flushes |-> 0, writes |-> 0,
            phases |-> <<>>]

(* The status arguments tried: one state before the end, two ends *)
StatusArgs(s) ==
    IF s = "awx" THEN {"monitoring", "completed", "canceled"}
                 ELSE {"documenting", "completed", "failed"}

Messages == {Some("note")}
Kwargs == {None, Some(7)}

Init ==
    /\ svc \in {"awx", "dns"}
    /\ now = 0
    /\ jobs = <<>>
    /\ files = <<>>
    /\ last_purge = None
    /\ used = {}
    /\ last = Call("init", 0, "none", None)
    /\ flushed = <<>>
    /\ drv = [j \in LoopIds |-> [task |-> "none", pc |-> "none", exc |-> None]]
    /\ g = initial_state
    /\ audit = [j \in LoopIds |-> NoAudit]
    /\ awx = AWXAdapter
    /\ http = NoCall
    /\ tech = NoTech
    /\ hist = NoHist

Next ==
    \/ \E j \in JobIds, k \in {"AWXJob", "OrchestrationJob", "RecordJob"} : AddJob(j, k)
    \/ \E j \in JobIds : GetJob(j)
    \/ \E j \in JobIds, s \in StatusArgs(svc),
          m \in Messages, kw \in Kwargs, o \in PersistOutcomes :
            UpdateStatus(j, s, m, kw, o)
    \/ PurgeOldJobs
    \/ Restart
    \/ \E j \in JobIds, k \in {"AWXJob", "OrchestrationJob", "RecordJob"},
          s \in {"completed"}, kw \in Kwargs, o \in {"written", "torn"},
          p \in BOOLEAN :
            PeerFlush(j, k, s, kw, o, p)
    \/ Tick

Spec == Init /\ [][Next]_vars

(* The services at work: jobs are submitted and their tasks run *)
NextDrv ==
    \/ \E j \in JobIds, k \in {"AWXJob", "OrchestrationJob", "RecordJob"},
          t \in Requests : Submit(j, k, t)
    \/ \E j \in JobIds, id \in TemplateIds, n \in TemplateNames : SubmitJob(j, id, n)
    \/ \E j \in JobIds : Start(j)
    \/ \E j \in JobIds, a \in AdapterOutcomes, b \in AdapterOutcomes : Resolve(j, a, b)
    \/ \E j \in JobIds, a \in AdapterOutcomes, f \in AwxTerminal : Launch(j, a, f)
    \/ \E j \in JobIds, a \in AdapterOutcomes : EnsureZone(j, a)
    \/ \E j \in JobIds, a \in AdapterOutcomes : UpsertRecord(j, a)
    \/ \E j \in JobIds, o \in PersistOutcomes : Document(j, o)
    \/ \E j \in JobIds, o \in PersistOutcomes : Except(j, o)
    \/ \E j \in JobIds, a \in AdapterOutcomes : Orchestrate(j, a)
    \/ \E j \in JobIds, a \in {"found", "missing", "raise"},
          b \in {"found", "missing", "raise"}, c \in {"id", "none", "raise"} :
            LaunchSubtask(j, a, b, c)
    \/ \E j \in JobIds, n \in 0..MaxPolls, s \in PollStatuses, late \in BOOLEAN :
            WaitForCompletion(j, PollsOf(n, s, late))
    \/ \E j \in JobIds : HandleCallback(j)
    \/ \E j \in JobIds : Finalize(j)
    \/ \E j \in JobIds, o \in PersistOutcomes : Collect(j, o)
    \/ Tick

SpecDrv == Init /\ [][NextDrv]_vars

(* workflow.invoke runs the nodes of the graph one after the other in    *)
(* the task's thread: a node that can run does run.  The adapter calls   *)
(* of a node return or raise (the HTTP client has a timeout), and        *)
(* wait_for_job gives up after job_timeout.                              *)
GraphRuns ==
    /\ WF_vars(\E j \in JobIds, a \in {"found", "missing", "raise"},
                  b \in {"found", "missing", "raise"}, c \in {"id", "none", "raise"} :
                    LaunchSubtask(j, a, b, c))
    /\ WF_vars(\E j \in JobIds, n \in 0..MaxPolls, s \in PollStatuses,
                  late \in BOOLEAN : WaitForCompletion(j, PollsOf(n, s, late)))
    /\ WF_vars(\E j \in JobIds : HandleCallback(j))
    /\ WF_vars(\E j \in JobIds : Finalize(j))

SpecDrvFair == SpecDrv /\ GraphRuns

(* Two submissions on one event loop: the endpoints and the tasks of     *)
(* NextDrv for every id uuid4 can hand out, with adapters that answer    *)
(* and cache writes that succeed, so that what varies is the order in    *)
(* which the two jobs are submitted and their tasks run.                 *)
NextLoop ==
    \/ \E j \in LoopIds, k \in {"AWXJob", "OrchestrationJob", "RecordJob"},
          t \in {{"install", "nginx"}, {"restart", "nginx"}} : Submit(j, k, t)
    \/ \E j \in LoopIds, id \in TemplateIds, n \in TemplateNames : SubmitJob(j, id, n)
    \/ \E j \in LoopIds : Start(j)
    \/ \E j \in LoopIds, a \in {"ok", "fail"} : Resolve(j, a, a)
    \/ \E j \in LoopIds : Launch(j, "ok", "successful")
    \/ \E j \in LoopIds : EnsureZone(j, "ok")
    \/ \E j \in LoopIds, a \in {"ok", "raise"} : UpsertRecord(j, a)
    \/ \E j \in LoopIds : Document(j, "written")
    \/ \E j \in LoopIds : Except(j, "written")
    \/ \E j \in LoopIds : Orchestrate(j, "ok")
    \/ \E j \in LoopIds, a \in {"found", "missing"} : LaunchSubtask(j, a, "found", "id")
    \/ \E j \in LoopIds, n \in 0..MaxPolls, s \in {"running", "successful"},
          late \in BOOLEAN : WaitForCompletion(j, PollsOf(n, s, late))
    \/ \E j \in LoopIds : HandleCallback(j)
    \/ \E j \in LoopIds : Finalize(j)
    \/ \E j \in LoopIds : Collect(j, "written")

SpecLoop == Init /\ [][NextLoop]_vars

(* wait_for_job on its own: the answers of get_job_status and the        *)
(* readings of the clock are drawn at the start, and the call is made    *)
PollAnswers == {"pending", "running"} \cup AwxTerminal \cup {"raise"}

Readings == {0, job_poll_interval, job_timeout, job_timeout + job_poll_interval}

PollInputs ==
    UNION {{p \in [1..n -> [status : PollAnswers, elapsed : Readings]] :
              \A i \in 1..(n - 1) : p[i].elapsed <= p[i + 1].elapsed} :
           n \in 0..MaxPolls}

InitWait ==
    /\ svc = "awx"
    /\ now = 0
    /\ jobs = <<>>
    /\ files = <<>>
    /\ last_purge = None
    /\ used = {}
    /\ last \in {Call("polls", 0, p, None) : p \in PollInputs}
    /\ flushed = <<>>
    /\ drv = [j \in LoopIds |-> [task |-> "none", pc |-> "none", exc |-> None]]
    /\ g = initial_state
    /\ audit = [j \in LoopIds |-> NoAudit]
    /\ awx = AWXAdapter
    /\ http = NoCall
    /\ tech = NoTech
    /\ hist = NoHist

(* awx_adapter.wait_for_job(job_id) on the answers drawn *)
WaitForJob ==
    /\ last.op = "polls"
    /\ last' = Call("wait_for_job", 0, last.arg, Some(wait_for_job(last.arg)))
    /\ UNCHANGED <<svc, now, jobs, files, last_purge, used, flushed, drv, g,
                   audit, tech, awx, http, hist>>

NextWait == WaitForJob

SpecWait == InitWait /\ [][NextWait]_vars

(* One call of upsert_record against a Technitium server *)
NextTech ==
    \/ UpsertRecordCall
    \/ \E e \in {"ok", "fail"}, s \in TechStatuses : AddRecord(e, s)
    \/ \E e \in {"ok", "fail"}, s \in TechStatuses : DeleteRecord(e, s)

SpecTech == Init /\ [][NextTech]_vars

(* The adapter at work: requests are made as time passes *)
NextAuth ==
    \/ \E r \in ApiRequests, e1 \in {"ok", "fail"}, s1 \in Statuses,
          e2 \in {"ok", "fail"}, s2 \in Statuses : Request(r, e1, s1, e2, s2)
    \/ \E d \in {TOKEN_MARGIN_SECONDS + 1, TOKEN_MARGIN_SECONDS, 0} : Elapse(d)

SpecAuth == Init /\ [][NextAuth]_vars


----------------------------------------------------------------------------
(* Steps of the Store *)

(* The step is a call of update_status(j, status) *)
IsUpdateStep(j) ==
    /\ last'.op = "update_status" /\ last'.id = j /\ now' = now
    /\ <<jobs, files, last_purge, last>>' # <<jobs, files, last_purge, last>>

(* The step is a direct call of purge_old_jobs *)
IsPurgeStep ==
    /\ last'.op = "purge_old_jobs" /\ now' = now
    /\ last' = last => <<jobs, files>>' # <<jobs, files>>

(* The step is a call in which _maybe_purge ran a pass *)
RanPurgePass == last_purge' # last_purge /\ last_purge' = Some(now)

Readable(doc) == Deserialize(svc, doc) # None

Loaded(doc) == Deserialize(svc, doc)[1]

----------------------------------------------------------------------------
(* C1: a job that is in a terminal state T1 keeps its status and its     *)
(* completed_at when update_status is called on it with a terminal T2.   *)
C1_TerminalSticky ==
    [][\A j \in JobIds :
          ( /\ j \in DOMAIN jobs
            /\ jobs[j].status \in Terminal(svc)
            /\ IsUpdateStep(j)
            /\ last'.arg \in Terminal(svc)
            /\ last'.ret # None
            /\ j \in DOMAIN jobs' )
          => /\ jobs'[j].status = jobs[j].status
             /\ jobs'[j].completed_at = jobs[j].completed_at]_vars

(* C5: a record hydrated from disk, by get_job on a memory miss or by    *)
(* _load_cached_jobs at construction, has the class it was written as.   *)
C5_HydratedKindPreserved ==
    /\ (last.op = "get_job" /\ last.arg = "hydrated")
          => last.ret[1].kind = flushed[last.id].kind
    /\ (last.op = "init")
          => \A j \in DOMAIN jobs : jobs[j].kind = flushed[j].kind

(* C6: get_job on a job that was flushed in state COMPLETED and is not   *)
(* in memory returns a record equal to the flushed one in every field.   *)
C6_HydrationRoundTrip ==
    ( /\ last.op = "get_job"
      /\ last.arg = "hydrated"
      /\ flushed[last.id].status = "completed" )
    => last.ret = Some(flushed[last.id])

(* C7: after a purge pass no record and no file whose completed_at is    *)
(* earlier than the cutoff is left, in memory or on disk; a record or a  *)
(* file that was there before the pass with a completed_at later than    *)
(* the cutoff is still there, and a job held in both with one            *)
(* completed_at is still in both.                                        *)
C7_PurgeCorrect ==
    [][ /\ (IsPurgeStep \/ RanPurgePass) =>
            /\ \A j \in DOMAIN jobs' : ~Expired(jobs'[j], Cutoff(now))
            /\ \A j \in DOMAIN files' :
                  Readable(files'[j]) /\ ~Expired(Loaded(files'[j]), Cutoff(now))
            /\ \A j \in DOMAIN jobs :
                  (jobs[j].completed_at # None /\ jobs[j].completed_at[1] > Cutoff(now))
                      => j \in DOMAIN jobs'
            /\ \A j \in DOMAIN files :
                  ( /\ Readable(files[j])
                    /\ Loaded(files[j]).completed_at # None
                    /\ Loaded(files[j]).completed_at[1] > Cutoff(now) )
                      => j \in DOMAIN files'
        /\ IsPurgeStep =>
            /\ \A j \in DOMAIN jobs :
                  Expired(jobs[j], Cutoff(now))
                      => j \notin DOMAIN jobs' /\ j \notin DOMAIN files'
            /\ \A j \in DOMAIN files :
                  (Readable(files[j]) /\ Expired(Loaded(files[j]), Cutoff(now)))
                      => j \notin DOMAIN files'
            /\ \A j \in (DOMAIN jobs) \cap (DOMAIN files) :
                  ( /\ Readable(files[j])
                    /\ Loaded(files[j]).completed_at = jobs[j].completed_at
                    /\ jobs[j].completed_at # None
                    /\ jobs[j].completed_at[1] > Cutoff(now) )
                      => /\ j \in DOMAIN jobs' /\ jobs'[j] = jobs[j]
                         /\ j \in DOMAIN files' /\ files'[j] = files[j]
      ]_vars

(* A direct purge pass has just removed, from memory and from disk, a    *)
(* job that was completed more than the retention window ago.            *)
C7_Witness ==
    /\ last.op = "purge_old_jobs"
    /\ 1 \in DOMAIN flushed
    /\ flushed[1].completed_at[1] < Cutoff(now)
    /\ 1 \notin DOMAIN jobs
    /\ 1 \notin DOMAIN files

(* C8: a job whose completed_at is unset is never removed from the       *)
(* in-memory map by a call of the Store (purge passes included, and the  *)
(* pass that add_job runs right after it stored the job), and a file     *)
(* whose record has no completed_at is never deleted by a purge pass or  *)
(* by the loading at construction.                                       *)
C8_NeverCompletedNeverPurged ==
    [][ /\ \A j \in DOMAIN jobs :
              (jobs[j].completed_at = None /\ last'.op # "init")
                  => j \in DOMAIN jobs'
        /\ \A j \in JobIds :
              (last'.op = "add_job" /\ last'.id = j /\ j \notin used /\ j \in used')
                  => j \in DOMAIN jobs' /\ jobs'[j].completed_at = None
        /\ \A j \in DOMAIN files :
              (Readable(files[j]) /\ Loaded(files[j]).completed_at = None)
                  => j \in DOMAIN files'
      ]_vars

(* A purge pass has run, more than a retention window after the job was  *)
(* added, and the job, never completed, is still in memory.              *)
C8_Witness ==
    /\ last.op = "purge_old_jobs"
    /\ now > RetentionSeconds
    /\ 1 \in DOMAIN jobs
    /\ jobs[1].completed_at = None
    /\ flushed = <<>>

(* C9: every cache file that holds a record holds one in a terminal      *)
(* state with completed_at set, and there is no file for a job that has  *)
(* not reached a terminal state.                                         *)
C9_OnlyTerminalPersisted ==
    /\ \A j \in DOMAIN files :
          IsJsonObject(files[j])
              => /\ files[j].status \in Terminal(svc)
                 /\ files[j].completed_at # None
    /\ \A j \in DOMAIN jobs :
          jobs[j].completed_at = None => j \notin DOMAIN files

(* update_status has just moved a job to a terminal state and written    *)
(* its file.                                                             *)
C9_Witness ==
    /\ last.op = "update_status"
    /\ last.ret # None
    /\ 1 \in DOMAIN jobs /\ 1 \in DOMAIN files
    /\ files[1] = ToJson(jobs[1])
    /\ jobs[1].status \in Terminal(svc)

(* The step is a call of get_job(j) *)
IsGetStep(j) ==
    /\ last'.op = "get_job" /\ last'.id = j /\ now' = now
    /\ used' = used /\ flushed' = flushed

(* The step is the construction of a JobManager *)
IsInitStep == last'.op = "init" /\ now' = now

(* The ids of the files that parse and whose record was not completed    *)
(* before the cutoff                                                     *)
Recent(fs, cutoff) ==
    {j \in DOMAIN fs :
        /\ Readable(fs[j])
        /\ (Loaded(fs[j]).completed_at = None
            \/ Loaded(fs[j]).completed_at[1] >= cutoff)}

----------------------------------------------------------------------------
(* C17: get_job on an id that is neither in memory nor on disk returns   *)
(* None, creates no file and leaves the in-memory map as it is.          *)
C17_MissHasNoEffect ==
    [][\A j \in JobIds :
          (IsGetStep(j) /\ j \notin DOMAIN jobs /\ j \notin DOMAIN files)
          => /\ last'.ret = None
             /\ files' = files
             /\ jobs' = jobs]_vars

(* get_job has just been called on an id that was used by no job, and    *)
(* has reported that it found nothing.                                   *)
C17_Witness ==
    /\ last.op = "get_job" /\ last.arg = "miss" /\ last.ret = None
    /\ last.id \notin used
    /\ jobs = <<>> /\ files = <<>>

(* C18: when get_job misses memory and the file of the id does not       *)
(* parse, the file is deleted, None is returned and nothing is put in    *)
(* memory; after a purge pass and after the loading at construction no   *)
(* file that does not parse is left.                                     *)
C18_CorruptFileDiscarded ==
    [][ /\ \A j \in JobIds :
              ( /\ IsGetStep(j)
                /\ j \notin DOMAIN jobs
                /\ j \in DOMAIN files
                /\ ~Readable(files[j]) )
              => /\ last'.ret = None
                 /\ files' = Remove(files, j)
                 /\ jobs' = jobs
        /\ (IsPurgeStep \/ RanPurgePass \/ IsInitStep)
              => \A j \in DOMAIN files' : Readable(files'[j])
      ]_vars

(* get_job has just met a file that does not parse: the file is gone and *)
(* memory does not hold the id.                                          *)
C18_Witness ==
    /\ last.op = "get_job" /\ last.arg = "corrupt" /\ last.ret = None
    /\ last.id \in used
    /\ last.id \notin DOMAIN files
    /\ last.id \notin DOMAIN jobs

(* C19: right after a JobManager is constructed, memory holds exactly    *)
(* the records of the files that parse and were not completed before the *)
(* cutoff, those files are untouched, and every other file is deleted.   *)
C19_StartupHydration ==
    [][ IsInitStep
        => /\ DOMAIN jobs' = Recent(files, Cutoff(now))
           /\ \A j \in DOMAIN jobs' : jobs'[j] = Loaded(files[j])
           /\ files' = Restrict(files, Recent(files, Cutoff(now)))
           /\ last_purge' = None
      ]_vars

(* A JobManager has just been constructed over a directory that holds    *)
(* the file of a job completed within the retention window: the job is   *)
(* in memory and its file is still there.                                *)
C19_Witness ==
    /\ last.op = "init"
    /\ 1 \in DOMAIN jobs /\ 1 \in DOMAIN files
    /\ jobs[1] = Loaded(files[1])
    /\ jobs[1].completed_at # None
    /\ now > jobs[1].completed_at[1]

----------------------------------------------------------------------------
(* Runs of the orchestration task *)

Finished(j) == At(j, "process_orchestration_job", "done") /\ j \in DOMAIN jobs

(* Some step of the run failed: its template was not found, its launch   *)
(* failed, its AWX job ended in a status other than successful, or the   *)
(* wait for it raised                                                    *)
StepFailed == g.failed_at # None

(* C2: an orchestration job whose task has finished is FAILED when a     *)
(* step of its run failed, so it is COMPLETED only when every step       *)
(* succeeded.                                                            *)
C2_FailedIfAnyStepFailed ==
    \A j \in JobIds :
        (Finished(j) /\ StepFailed) => jobs[j].status = "failed"

(* C3: when the launch of the first of two steps fails, the finished job *)
(* is FAILED, has exactly one child record, and the second step was      *)
(* never launched.                                                       *)
C3_FirstStepLaunchFails ==
    \A j \in JobIds :
        ( /\ Finished(j)
          /\ Len(g.decomposed_tasks) = 2
          /\ g.failed_at = Some(0)
          /\ g.decomposed_tasks[1].status = Some("failed") )
        => /\ jobs[j].status = "failed"
           /\ Len(jobs[j].awx_jobs) = 1
           /\ \A k \in DOMAIN g.launches : g.launches[k] # 1

(* C4: once a step has failed, launch_job_template is not called for a   *)
(* task whose index is greater than the failed task's index.             *)
C4_NoLaunchAfterFailure ==
    [][ (g.failed_at # None /\ Len(g'.launches) > Len(g.launches))
            => g'.launches[Len(g'.launches)] <= g.failed_at[1] ]_vars

(* The AWX job of the first of two steps has ended in a status other     *)
(* than successful, the graph has run to its end, and only that first    *)
(* step was ever launched.                                               *)
C4_Witness ==
    /\ At(1, "process_orchestration_job", "collect")
    /\ Len(g.decomposed_tasks) = 2
    /\ g.failed_at = Some(0)
    /\ g.decomposed_tasks[1].awx_status = Some("failed")
    /\ g.launches = <<0>>

(* C10: the task of a job moves it to a terminal state at most once,     *)
(* stamps completed_at at most once and writes its file at most once.    *)
C10_TerminalOnce ==
    \A j \in JobIds :
        /\ audit[j].entries <= 1
        /\ audit[j].stamps <= 1
        /\ audit[j].writes <= 1

----------------------------------------------------------------------------
(* Steps of the endpoints and of the background tasks *)

(* The step is a submit endpoint accepting job j *)
IsSubmitStep(j) == j \notin used /\ j \in used'

(* The step is a task's update_status(j, COMPLETED) whose cache write    *)
(* failed                                                                *)
IsFailedFlushOfCompleted(j) ==
    /\ last'.op = "update_status" /\ last'.id = j /\ last'.arg = "completed"
    /\ audit'[j].flushes = audit[j].flushes + 1
    /\ (j \notin DOMAIN files' \/ files'[j] # ToJson(jobs'[j]))

(* C12: no exception leaves a background task, and a task that has       *)
(* returned has left its job in a terminal state with a message.         *)
C12_FailuresAbsorbed ==
    \A j \in JobIds :
        /\ drv[j].pc # "crashed"
        /\ (drv[j].pc = "done" /\ j \in DOMAIN jobs)
              => /\ jobs[j].status \in Terminal(svc)
                 /\ jobs[j].message # None

(* C13: when the cache write fails while a task moves its job to         *)
(* COMPLETED, update_status still returns the record, the job is         *)
(* COMPLETED in memory and the task goes on to its end.                  *)
C13_FlushFailureNotPropagated ==
    [][\A j \in JobIds :
          IsFailedFlushOfCompleted(j)
          => /\ last'.ret # None
             /\ jobs'[j].status = "completed"
             /\ drv'[j].pc = "done"]_vars

(* C20: when a submit endpoint returns, the job is in memory in state    *)
(* RECEIVED with completed_at unset, has no cache file, the response     *)
(* reports RECEIVED and the job's task has not run; a job leaves         *)
(* RECEIVED only in a later step, the first of its task.                 *)
C20_FireAndForget ==
    [][\A j \in JobIds :
          /\ IsSubmitStep(j)
                => /\ j \in DOMAIN jobs'
                   /\ jobs'[j].status = "received"
                   /\ jobs'[j].completed_at = None
                   /\ j \notin DOMAIN files'
                   /\ last'.ret # None /\ last'.ret[1].status = "received"
                   /\ drv'[j].pc = "queued"
                   /\ audit' = audit
          /\ ( /\ j \in DOMAIN jobs /\ jobs[j].status = "received"
               /\ j \in DOMAIN jobs' /\ jobs'[j].status # "received" )
                => drv[j].pc = "queued" /\ drv'[j].pc # "queued"
      ]_vars

(* A job has been accepted and its task has not started: the record is   *)
(* in memory in state RECEIVED and there is no file.                     *)
C20_Witness ==
    /\ last.op = "add_job" /\ last.id = 1
    /\ drv[1].pc = "queued"
    /\ 1 \in DOMAIN jobs /\ jobs[1].status = "received"
    /\ 1 \notin DOMAIN files

----------------------------------------------------------------------------
(* Calls of AWXAdapter._request *)

(* C14: when the request gets a 401 and the reissued request succeeds,   *)
(* _request has dropped the cached token, fetched a new one, sent the    *)
(* same request once more with the new token, and returns the second     *)
(* response without raising.                                             *)
C14_RetryOnceThenSuccess ==
    (Len(http.responses) = 2 /\ http.responses[1] = 401
       /\ ~RaisesForStatus(http.responses[2]))
    => /\ ~http.raised
       /\ http.ret = Some(Response(http.responses[2], 2))
       /\ Len(http.sent) = 2
       /\ http.sent[2].request = http.sent[1].request
       /\ http.sent[2].token # http.sent[1].token
       /\ http.sent[2].token[1] > http.before.issued
       /\ http.contacts[2]
       /\ awx.token = http.sent[2].token

(* A call has met one 401 and then a 200, and has returned.              *)
C14_Witness ==
    /\ http.responses = <<401, 200>>
    /\ http.ret = Some(Response(200, 2))
    /\ http.before.token # None

(* C15: one call of _request sends the request at most twice, and when   *)
(* both answers are 401 it raises.                                       *)
C15_NoThirdAttempt ==
    /\ Len(http.sent) <= 2
    /\ Len(http.responses) <= Len(http.sent)
    /\ http.responses = <<401, 401>> => (http.raised /\ http.ret = None)

(* A call has met two 401 answers and has raised.                        *)
C15_Witness ==
    /\ http.responses = <<401, 401>>
    /\ Len(http.sent) = 2
    /\ http.raised

(* C16: every request sent carries a token whose recorded expiry is more *)
(* than 60 seconds after the time the token was checked or fetched; a    *)
(* cached token that is absent or within 60 seconds of its recorded      *)
(* expiry is replaced before the first attempt, and a cached token       *)
(* further from its expiry is used without a call of the token endpoint. *)
C16_ProactiveRefresh ==
    /\ \A i \in DOMAIN http.sent :
          /\ http.sent[i].expires # None
          /\ http.sent[i].expires[1] - http.sent[i].at > TOKEN_MARGIN_SECONDS
    /\ ( /\ http.sent # <<>>
         /\ \/ http.before.token = None
            \/ http.at >= http.before.token_expires[1] - TOKEN_MARGIN_SECONDS )
       => /\ http.sent[1].token # http.before.token
          /\ http.contacts[1]
    /\ ( /\ http.contacts # <<>>
         /\ http.before.token # None
         /\ http.at < http.before.token_expires[1] - TOKEN_MARGIN_SECONDS )
       => /\ http.sent # <<>>
          /\ http.sent[1].token = http.before.token
          /\ ~http.contacts[1]

(* A call found a cached token exactly 60 seconds before its recorded    *)
(* expiry and sent its request with a newer one.                         *)
C16_Witness ==
    /\ http.sent # <<>>
    /\ http.before.token # None
    /\ http.at = http.before.token_expires[1] - TOKEN_MARGIN_SECONDS
    /\ http.sent[1].token # http.before.token

----------------------------------------------------------------------------
(* The purge cadence *)

(* The step is a call of add_job for job j *)
IsAddStep(j) == last'.op = "add_job" /\ last'.id = j /\ j \notin used /\ j \in used'

(* The store holds nothing a purge pass at time t removes *)
Purged(js, fs, t) ==
    /\ \A j \in DOMAIN js : ~Expired(js[j], Cutoff(t))
    /\ \A j \in DOMAIN fs :
          Readable(fs[j]) /\ ~Expired(Loaded(fs[j]), Cutoff(t))

(* C21: every add_job or update_status call made when no purge pass has  *)
(* run yet, or when 60 seconds or more have passed since the last one,   *)
(* runs a full purge pass before it returns, and a pass run by such a    *)
(* call never starts less than 60 seconds after the previous one.        *)
C21_PurgeCadence ==
    [][\A j \in JobIds :
          (IsAddStep(j) \/ IsUpdateStep(j))
          => /\ PurgeDue(last_purge, now)
                  => /\ last_purge' = Some(now)
                     /\ Purged(jobs', files', now)
             /\ last_purge' # last_purge
                  => (last_purge = None
                      \/ now - last_purge[1] >= PURGE_INTERVAL_SECONDS)
      ]_vars

----------------------------------------------------------------------------
(* Who writes the record *)

(* The fields of a record other than those update_status assigns: the    *)
(* status, the message, completed_at and the keyword argument            *)
FrameFields(job) ==
    (DOMAIN job) \ {"status", "message", "completed_at", ResultField(job)}

(* C24: a stored record changes only in a call of update_status, which   *)
(* leaves every field it is not given as it was, and the request of a    *)
(* job is the same in every state from submission on.                    *)
C24_OnlyUpdateStatusWrites ==
    [][\A j \in (DOMAIN jobs) \cap (DOMAIN jobs') :
          /\ jobs'[j].request = jobs[j].request
          /\ jobs'[j] # jobs[j]
                => /\ last'.op = "update_status" /\ last'.id = j
                   /\ last' # last
                   /\ \A f \in FrameFields(jobs[j]) : jobs'[j][f] = jobs[j][f]
      ]_vars

----------------------------------------------------------------------------
(* The submit endpoints *)

(* The step is submit_job answering 400 *)
IsRejectStep == last'.op = "submit_job" /\ last'.arg = "rejected" /\ last' # last

(* C25: a job-template submission with neither a template id nor a       *)
(* template name is rejected in the handler: no job is ever stored whose *)
(* request has neither, and the rejection leaves the in-memory map, the  *)
(* cache directory, the ids handed out and the scheduled tasks as they   *)
(* were.                                                                 *)
C25_RejectedSubmissionCreatesNothing ==
    [][ /\ IsRejectStep
              => /\ jobs' = jobs /\ files' = files /\ last_purge' = last_purge
                 /\ used' = used /\ hist' = hist
                 /\ drv' = drv /\ audit' = audit
        /\ \A j \in JobIds :
              (IsSubmitStep(j) /\ drv'[j].task = "process_awx_job")
              => /\ j \in DOMAIN jobs'
                 /\ \/ jobs'[j].request.job_template_id \notin {None, Some(0)}
                    \/ jobs'[j].request.job_template_name \notin {None, Some("")}
      ]_vars

(* submit_job has just answered 400 before any job was submitted: the    *)
(* store is empty and no task is scheduled.                              *)
C25_Witness ==
    /\ last.op = "submit_job" /\ last.arg = "rejected"
    /\ jobs = <<>> /\ files = <<>> /\ used = {}
    /\ hist.ids = <<>>
    /\ \A j \in DOMAIN drv : drv[j].pc = "none"

----------------------------------------------------------------------------
(* Scenarios of the orchestration task *)

(* The task of job j has ended, by returning or by an exception *)
Ended(j) == drv[j].pc \in {"done", "crashed"} /\ j \in DOMAIN jobs

(* The run of job j was the happy path: one install step; the search for *)
(* the step's own template found nothing and the search for the fallback *)
(* template found it; the launch returned a job id; wait_for_job saw the *)
(* job running at its first poll and successful at its second; and the   *)
(* one write of the cache file succeeded.                                *)
HappyPath(j) ==
    /\ drv[j].task = "process_orchestration_job"
    /\ Ended(j)
    /\ Len(g.decomposed_tasks) = 1
    /\ g.decomposed_tasks[1].action \in {"install-nginx", "install-docker"}
    /\ hist.calls[j] = <<"search_job_template", "search_job_template",
                         "launch_job_template", "wait_for_job">>
    /\ Len(g.awx_job_ids) = 1
    /\ g.waited = Some([outcome |-> "successful", polls |-> 2])
    /\ audit[j].entries = 1 /\ j \in DOMAIN flushed

(* C26: an orchestration job whose run was the happy path ends COMPLETED *)
(* with exactly one child job recorded, the one AWX started.             *)
C26_HappyPathOrchestration ==
    \A j \in JobIds :
        HappyPath(j)
        => /\ jobs[j].status = "completed"
           /\ Len(jobs[j].awx_jobs) = 1
           /\ jobs[j].awx_jobs[1].awx_job_id = Some(g.awx_job_ids[1])
           /\ jobs[j].decomposed_tasks = g.decomposed_tasks

(* The happy path has been run for "install nginx", and the task has     *)
(* returned.                                                             *)
C26_Witness ==
    /\ HappyPath(1)
    /\ jobs[1].request.request = {"install", "nginx"}
    /\ drv[1].pc = "done"
    /\ audit[1].phases = <<"validating", "monitoring", "completed">>

----------------------------------------------------------------------------
(* The order of the states a task writes *)

(* The place of a state in the order RECEIVED, VALIDATING,               *)
(* LAUNCHING / APPLYING, MONITORING / DOCUMENTING, terminal              *)
Rank(status) ==
    CASE status = "received" -> 0
      [] status = "validating" -> 1
      [] status \in {"launching", "applying"} -> 2
      [] status \in {"monitoring", "documenting"} -> 3
      [] OTHER -> 4

SingleStep(j) == drv[j].task \in {"process_awx_job", "process_record_job"}

(* C27: the states the task of a single-step job has written are in the  *)
(* order VALIDATING, LAUNCHING / APPLYING, MONITORING / DOCUMENTING,     *)
(* terminal, each later in the order than the one before, so that a      *)
(* terminal state is the last one written; and COMPLETED is written only *)
(* after all three phases before it.                                     *)
C27_SingleStepMovesForward ==
    \A j \in JobIds :
        SingleStep(j)
        => /\ \A i, k \in DOMAIN audit[j].phases :
                 i < k => Rank(audit[j].phases[i]) < Rank(audit[j].phases[k])
           /\ \A k \in DOMAIN audit[j].phases :
                 audit[j].phases[k] = "completed"
                    => \A r \in 1..3 : \E i \in 1..(k - 1) :
                          Rank(audit[j].phases[i]) = r

(* The states of the per-step iteration *)
IsStepPhase(status) == status \in {"launching", "applying", "monitoring"}

(* LAUNCHING then MONITORING, n times over *)
StepPhases(n) ==
    [i \in 1..(2 * n) |-> IF i % 2 = 1 THEN "launching" ELSE "monitoring"]

(* The graph of job j ran every decomposed step to a successful end *)
AllStepsRun(j) ==
    /\ drv[j].task = "process_orchestration_job"
    /\ Ended(j)
    /\ g.decomposed_tasks # <<>>
    /\ g.current_task_index = Len(g.decomposed_tasks)
    /\ g.error = None

(* C28: an orchestration job whose steps have all been run has been      *)
(* through LAUNCHING then MONITORING once for each decomposed step, in   *)
(* step order, before its terminal state.                                *)
C28_PhasesPerStep ==
    \A j \in JobIds :
        AllStepsRun(j)
        => /\ SelectSeq(audit[j].phases, IsStepPhase)
                 = StepPhases(Len(g.decomposed_tasks))
           /\ Rank(audit[j].phases[Len(audit[j].phases)]) = 4

----------------------------------------------------------------------------
(* Failures of the single-step task *)

(* How often the task of job j has called the adapter's method m *)
CallCount(j, m) ==
    Cardinality({i \in DOMAIN hist.calls[j] : hist.calls[j][i] = m})

(* The task of job j raised because the search by name found nothing     *)
NameNotFound(j) ==
    /\ drv[j].task = "process_awx_job"
    /\ drv[j].exc = Some("Job template 'tmpl' not found")

(* The task of job j raised because get_job_template found nothing       *)
IdNotFound(j, id) ==
    /\ drv[j].task = "process_awx_job"
    /\ drv[j].exc = Some(IF id = 5 THEN "Job template ID 5 not found"
                                   ELSE "Job template ID 1 not found")

(* C29: when the search by name or the lookup by id finds no template,   *)
(* the single-step task never calls launch_job_template, makes each      *)
(* resolution call once only, and ends with the job FAILED, completed_at *)
(* set and a message that names the template that is missing.            *)
C29_ResolutionFailureIsFinal ==
    \A j \in JobIds :
        /\ (NameNotFound(j) \/ IdNotFound(j, 5) \/ IdNotFound(j, 1))
              => /\ CallCount(j, "launch_job_template") = 0
                 /\ CallCount(j, "search_job_template") <= 1
                 /\ CallCount(j, "get_job_template") <= 1
                 /\ Ended(j) => /\ jobs[j].status = "failed"
                                /\ jobs[j].completed_at # None
                                /\ audit[j].phases = <<"validating", "failed">>
        /\ (NameNotFound(j) /\ Ended(j))
              => /\ jobs[j].request.job_template_name = Some("tmpl")
                 /\ jobs[j].message =
                       Some("Job processing failed: Job template 'tmpl' not found")
        /\ \A id \in {1, 5} :
              (IdNotFound(j, id) /\ Ended(j))
              => /\ jobs[j].request.job_template_id = Some(id)
                 /\ jobs[j].message =
                       Some(IF id = 5
                            THEN "Job processing failed: Job template ID 5 not found"
                            ELSE "Job processing failed: Job template ID 1 not found")

(* The search by name found nothing, and the task has ended: one adapter *)
(* call was made and the job is FAILED.                                  *)
C29_Witness ==
    /\ NameNotFound(1) /\ Ended(1)
    /\ hist.calls[1] = <<"search_job_template">>
    /\ jobs[1].status = "failed"
    /\ drv[1].pc = "done"

(* The last wait_for_job of job j's run gave up: a poll found the AWX    *)
(* job not yet terminal after more than job_timeout seconds.             *)
TimedOut(j) ==
    /\ drv[j].task \in {"process_awx_job", "process_orchestration_job"}
    /\ CallCount(j, "wait_for_job") > 0
    /\ g.waited # None
    /\ g.waited[1].outcome = "timeout"

(* C30: a job whose monitoring gave up on the timeout ends FAILED, and   *)
(* cancel_job was never called for it.                                   *)
C30_TimeoutFailsWithoutCancel ==
    \A j \in JobIds :
        (TimedOut(j) /\ Ended(j))
            => /\ jobs[j].status = "failed"
               /\ CallCount(j, "cancel_job") = 0

----------------------------------------------------------------------------
(* Two jobs on one event loop *)

(* The task of job j is inside a call that waits: an adapter's HTTP      *)
(* request, or wait_for_job's poll and time.sleep                        *)
Waiting(j) ==
    \/ drv[j].task = "process_awx_job" /\ drv[j].pc \in {"resolve", "launch"}
    \/ drv[j].task = "process_record_job"
          /\ drv[j].pc \in {"ensure_zone", "upsert_record"}
    \/ drv[j].task = "process_orchestration_job"
          /\ drv[j].pc \in {"launch_subtask", "wait_for_completion"}

(* C22: while the task of one job is waiting on an adapter's request or  *)
(* in the polling wait, the task of every other submitted job that has   *)
(* not ended can take its next step.                                     *)
C22_WaitsDoNotBlockOtherJobs ==
    \A a \in LoopIds, b \in LoopIds :
        (a # b /\ Waiting(a) /\ drv[b].pc = "queued") => ENABLED Start(b)

(* C23: the job ids the submit endpoints have returned are pairwise      *)
(* distinct, every one of them was drawn for that submission, and the    *)
(* in-memory map holds under each key the one record that carries that   *)
(* id.                                                                   *)
C23_ReturnedIdsAreDistinct ==
    /\ \A m \in DOMAIN hist.ids, n \in DOMAIN hist.ids :
           m # n => hist.ids[m] # hist.ids[n]
    /\ Cardinality({hist.ids[m] : m \in DOMAIN hist.ids}) = Len(hist.ids)
    /\ {hist.ids[m] : m \in DOMAIN hist.ids} = used
    /\ \A j \in DOMAIN jobs : jobs[j].job_id = j /\ j \in used
    /\ \A j \in DOMAIN jobs, k \in DOMAIN jobs :
           jobs[j].job_id = jobs[k].job_id => j = k

(* Two submissions were accepted, and both records are in the map *)
C23_Witness ==
    /\ Len(hist.ids) = 2
    /\ hist.ids[1] \in DOMAIN jobs /\ hist.ids[2] \in DOMAIN jobs
    /\ jobs[hist.ids[1]] # jobs[hist.ids[2]]

----------------------------------------------------------------------------
(* The end of a launched single-step job *)

(* The single-step task of job j has launched a job on AWX, that job has *)
(* ended there with final, and the task has ended                        *)
LaunchedAndEnded(j, final) ==
    /\ drv[j].task = "process_awx_job"
    /\ Ended(j)
    /\ hist.backend[j] = Some(final)

(* The message of main.py:236 for a job that has not succeeded *)
FailedWithStatus(final) ==
    CASE final = "failed" -> "Job failed with status: AWXJobStatus.FAILED"
      [] final = "error" -> "Job failed with status: AWXJobStatus.ERROR"
      [] OTHER -> "Job failed with status: AWXJobStatus.CANCELED"

(* C31: a single-step job whose AWX job has ended is COMPLETED if and    *)
(* only if the AWX job ended successful; with failed, error or canceled  *)
(* it is FAILED and its message and awx_error give that status.          *)
C31_CompletedIffSuccessful ==
    \A j \in JobIds, final \in AwxTerminal :
        LaunchedAndEnded(j, final)
            => /\ jobs[j].status = "completed" <=> final = "successful"
               /\ final # "successful"
                     => /\ jobs[j].status = "failed"
                        /\ jobs[j].message = Some(FailedWithStatus(final))
                        /\ jobs[j].awx_error = Some(FailedWithStatus(final))

----------------------------------------------------------------------------
(* More on the Store *)

(* C32: when get_job has returned a record it loaded from the cache, the *)
(* record is in the in-memory map, its cache file exists, and            *)
(* update_status on the same id finds the job.                           *)
C32_HydratedRecordStays ==
    (last.op = "get_job" /\ last.arg = "hydrated")
        => /\ last.id \in DOMAIN jobs
           /\ jobs[last.id] = last.ret[1]
           /\ last.id \in DOMAIN files
           /\ update_status(svc, Store, last.id, "validating", None, None,
                            "written", now).ret # None

(* C33: a record in the in-memory map has completed_at set if and only   *)
(* if its status is terminal.                                            *)
C33_CompletedAtIffTerminal ==
    \A j \in DOMAIN jobs :
        jobs[j].completed_at # None <=> jobs[j].status \in Terminal(svc)

----------------------------------------------------------------------------
(* The cache file of a finished job *)

(* The document job.json() gives for the record job *)
Document_Of(job) == [f \in (DOMAIN job) \ {"kind"} |-> job[f]]

(* The cache file of job j holds the record the in-memory map holds      *)
FileAgrees(j) ==
    /\ j \in DOMAIN files
    /\ files[j] = Document_Of(jobs[j])

(* C34 as claimed: once the task of a job has ended, and as long as the  *)
(* record is in the in-memory map, the job's cache file holds the record *)
(* of the map, field for field.                                          *)
C34_FileAgreesWithMemory ==
    \A j \in JobIds : Ended(j) => FileAgrees(j)

(* C34, amended: once the task of a job has ended, and as long as the    *)
(* record is in the in-memory map, a cache file of the job that can be   *)
(* read holds the record of the map, field for field; there is such a    *)
(* file when the task's last update_status returned, and there is no     *)
(* file or a truncated one when that call's write_text raised.           *)
C34_ReadableFileAgreesWithMemory ==
    \A j \in JobIds :
        Ended(j)
            => /\ (j \in DOMAIN files /\ Readable(files[j])) => FileAgrees(j)
               /\ drv[j].pc = "done" => FileAgrees(j)
               /\ drv[j].pc = "crashed"
                     => (j \notin DOMAIN files \/ files[j] = Torn)

(* An orchestration job has ended COMPLETED with a child job recorded,   *)
(* and its file holds the record with the child and the completed_at     *)
C34_Witness ==
    /\ Ended(1) /\ drv[1].pc = "done"
    /\ drv[1].task = "process_orchestration_job"
    /\ jobs[1].status = "completed"
    /\ jobs[1].awx_jobs # <<>>
    /\ files[1].awx_jobs = jobs[1].awx_jobs
    /\ files[1].completed_at = jobs[1].completed_at
    /\ files[1].completed_at # None

----------------------------------------------------------------------------
(* The steps of an orchestration *)

(* No AWX job was started for the i-th of the decomposed tasks *)
NotLaunched(i) == g.decomposed_tasks[i].awx_job_id = None

(* C35: a task for which no AWX job was started is never marked          *)
(* completed, never given an awx_status, and current_task_index never    *)
(* moves past it: wait_for_completion records the result of the job      *)
(* started for the current task only.                                    *)
C35_WaitsOnOwnJobOnly ==
    \A i \in DOMAIN g.decomposed_tasks :
        NotLaunched(i)
            => /\ ~g.decomposed_tasks[i].completed
               /\ g.decomposed_tasks[i].awx_status = None
               /\ g.current_task_index <= i - 1

(* finalize has run: it has appended the tasks to completed_tasks *)
Finalized == g.completed_tasks # <<>>

(* An AWX job was started for the i-th task and AWX has reported it      *)
(* successful                                                            *)
RanSuccessfully(i) ==
    /\ g.decomposed_tasks[i].awx_job_id # None
    /\ g.decomposed_tasks[i].awx_job_id[1] \in DOMAIN g.backend
    /\ g.backend[g.decomposed_tasks[i].awx_job_id[1]] = "successful"

(* C36: in the state finalize leaves, a task has status "completed" only *)
(* if an AWX job was started for it and that job ended successful.       *)
C36_CompletedMeansSuccessful ==
    Finalized
        => \A i \in DOMAIN g.decomposed_tasks :
              g.decomposed_tasks[i].status = Some("completed")
                  => RanSuccessfully(i)

(* The task indices in seq are in strictly ascending order *)
Ascending(seq) ==
    \A m \in DOMAIN seq, n \in DOMAIN seq : m < n => seq[m] < seq[n]

(* What holds of the graph's passes in every state: launch_subtask has   *)
(* tried no task twice and no more tasks than there are, has launched no *)
(* task twice, and the pass that has just gone through                   *)
(* wait_for_completion has moved current_task_index past the task it     *)
(* tried or has left an error                                            *)
PassesBounded ==
    /\ Len(g.attempts) <= Len(g.decomposed_tasks)
    /\ Ascending(g.attempts)
    /\ Ascending(g.launches)
    /\ \A j \in JobIds :
          At(j, "process_orchestration_job", "handle_callback")
              => \/ g.error # None
                 \/ g.current_task_index > g.attempts[Len(g.attempts)]

(* C37: the graph always terminates.  launch_subtask tries each task at  *)
(* most once and launches each at most once, every pass through          *)
(* launch_subtask, wait_for_completion and handle_callback moves         *)
(* current_task_index forward or leaves an error, and a graph that has   *)
(* been started reaches the end of finalize.                             *)
C37_GraphTerminates ==
    /\ []PassesBounded
    /\ \A j \in JobIds :
          At(j, "process_orchestration_job", "launch_subtask")
              ~> (At(j, "process_orchestration_job", "collect") /\ Finalized)

(* finalize was reached after both tasks of a request were tried, the    *)
(* second after the first one's job had succeeded                        *)
C37_Witness ==
    /\ Finalized
    /\ g.attempts = <<0, 1>>
    /\ Len(g.decomposed_tasks) = 2
    /\ drv[1].pc = "collect"

----------------------------------------------------------------------------
(* update_status on an id the map does not hold *)

(* C38: update_status on an id that is not in the in-memory map returns  *)
(* None and changes nothing: the map, the cache directory and the time   *)
(* of the last purge are as before, whether or not the id has a cache    *)
(* file.                                                                 *)
C38_UnknownIdChangesNothing ==
    [][\A j \in JobIds :
          (j \notin DOMAIN jobs /\ IsUpdateStep(j))
              => /\ last'.ret = None
                 /\ jobs' = jobs
                 /\ files' = files
                 /\ last_purge' = last_purge
                 /\ flushed' = flushed]_vars

(* update_status has been called on an id that has a readable cache file *)
(* and no record in the map, at a time when a purge pass was due and the *)
(* file was older than the retention window: the file is still there     *)
C38_Witness ==
    /\ last.op = "update_status" /\ last.ret = None
    /\ last.id \notin DOMAIN jobs
    /\ last.id \in DOMAIN files
    /\ Readable(files[last.id])
    /\ PurgeDue(last_purge, now)
    /\ Expired(Loaded(files[last.id]), Cutoff(now))

----------------------------------------------------------------------------
(* wait_for_job *)

(* The poll p ends the loop of wait_for_job *)
EndsLoop(p) ==
    \/ p.status \in AwxTerminal
    \/ p.status = "raise"
    \/ p.elapsed > job_timeout

(* C39: wait_for_job leaves its loop at the first poll that finds the    *)
(* job ended (successful, failed, error, canceled), that raises, or that *)
(* finds more than job_timeout seconds gone by, and at no earlier one;   *)
(* so it has polled at least once.  It returns the status found when     *)
(* that is one of the four, whatever the time gone by; otherwise it      *)
(* raises: the error of the request, or TimeoutError.                    *)
C39_WaitForJob ==
    last.op = "wait_for_job"
        => LET polls == last.arg
               w == last.ret[1]
               E == {i \in DOMAIN polls : EndsLoop(polls[i])}
           IN  /\ w.outcome # "pending" => w.polls >= 1
               /\ E = {} <=> w.outcome = "pending"
               /\ E = {} => w.polls = Len(polls)
               /\ E # {}
                    => /\ w.polls \in E
                       /\ \A m \in E : w.polls <= m
                       /\ polls[w.polls].status \in AwxTerminal
                             <=> w.outcome \in AwxTerminal
                       /\ w.outcome \in AwxTerminal
                             => w.outcome = polls[w.polls].status
                       /\ w.outcome = "timeout"
                             <=> /\ polls[w.polls].status \in {"pending", "running"}
                                 /\ polls[w.polls].elapsed > job_timeout
                       /\ w.outcome = "raise" <=> polls[w.polls].status = "raise"

(* The job was running at the first poll and successful at the second,   *)
(* which came after job_timeout had passed: successful is returned       *)
C39_Witness ==
    /\ last.op = "wait_for_job"
    /\ Len(last.arg) = 2
    /\ last.arg[1] = [status |-> "running", elapsed |-> 0]
    /\ last.arg[2] = [status |-> "successful",
                      elapsed |-> job_timeout + job_poll_interval]
    /\ last.ret = Some([outcome |-> "successful", polls |-> 2])

----------------------------------------------------------------------------
(* upsert_record of the Technitium adapter *)

(* How many requests of kind op the call has sent *)
SentCount(op) ==
    Cardinality({i \in DOMAIN tech.log : tech.log[i].op = op})

(* C40: a call of upsert_record sends at most two add requests and one   *)
(* delete request to the server, whatever the server answers, and then   *)
(* returns.                                                              *)
C40_UpsertBounded ==
    /\ SentCount("add") <= 2
    /\ SentCount("delete") <= 1
    /\ tech.pc = "add_record" => tech.depth <= 2

=============================================================================
